---- MODULE Spec2Model ----
(***************************************************************************)
(* Verification model of the quota-enforced dispatch core of the OCR API   *)
(* service: the credential store (app/api_keys.py), the authentication     *)
(* dependency with its sliding-window quota guard (app/auth.py) and the    *)
(* remote understanding dispatcher with its concurrency gate               *)
(* (app/vlm_engine.py, app/routes/understand.py), the cleaning of the      *)
(* backend's answer, the extraction and understanding routes               *)
(* (app/routes/ocr.py, app/ocr_engine.py) and the operations of the        *)
(* credential store called directly.                                       *)
(*                                                                         *)
(* Scheduling: the service runs in one uvicorn process (run.py) and every  *)
(* route and dependency is an `async def`.  A coroutine is only suspended  *)
(* at an `await` that really blocks; get_api_key and the admin routes      *)
(* contain none, so each of them is one atomic step of the event loop.     *)
(* understand_image suspends while waiting for the semaphore and while     *)
(* awaiting the HTTP response of the backend.                              *)
(***************************************************************************)
EXTENDS Integers, Sequences, FiniteSets, TLC

(***************************************************************************)
(* Bounds of the model.                                                    *)
(***************************************************************************)
MaxRequests == 3      \* API requests handled in one behaviour
MaxTicks == 2         \* clock advances in one behaviour
MaxCalls == 3         \* understand_image calls in one behaviour
MaxLog == 3           \* length of a usage log given to the quota guard alone
MaxContent == 4       \* length of a backend answer, in tokens
MaxFiles == 11        \* files in one batch
MaxVaried == 3        \* leading files of a batch that are not plain good images
MaxAborts == 1      \* callers that disconnect in one behaviour
MaxRows == 3        \* rows of one image_to_data table
MaxTrail == 4       \* requests, toggles and deletes in one recorded history

(***************************************************************************)
(* Program constants.                                                      *)
(***************************************************************************)
MINUTE == 60
HOUR == 3600
DAY == 86400
VLM_MAX_CONCURRENT == 2
MAX_BATCH_FILES == 10
DEFAULT_PER_MINUTE == 60      \* create_api_key(rate_limit_per_minute=60)
DEFAULT_PER_DAY == 1000       \* create_api_key(rate_limit_per_day=1000)

None == <<"None", 0>>     \* no key id
NoTime == <<>>              \* last_used: None

KeyIds == {<<"k", 1>>, <<"k", 2>>}           \* values of secrets.token_hex(8)
Tokens == {<<"t", 1>>, <<"t", 2>>}           \* values of secrets.token_urlsafe(32)
LimitsPerMinute == {1, 2}           \* APIKeyCreate.rate_limit_per_minute, ge=1
LimitsPerDay == {2}                 \* APIKeyCreate.rate_limit_per_day, ge=1
Jumps == {59, 60, 86340}            \* elapsed seconds between two events
Delays == {0, 60}                   \* elapsed seconds inside get_api_key

\* A raw key is the string prefix + token.  NoHeader is the absent or empty
\* X-API-Key header (`not api_key`).
generate_api_key(tok) == [prefix |-> "ocr_", token |-> tok]
NoHeader == [prefix |-> "", token |-> <<"", 0>>]
RawKeys == {generate_api_key(tok) : tok \in Tokens}
              \cup {[prefix |-> "key_", token |-> <<"t", 1>>]}
Headers == RawKeys \cup {NoHeader}

VARIABLES
    keys,       \* contents of api_keys.json: insertion-ordered key records
    clock,      \* datetime.now(timezone.utc), in seconds
    response,   \* result of the most recent get_api_key call
    hist,       \* history: per key id, the times of all admitted requests
    burst,      \* history: per key id, the requests decided at one instant
    usedIds,    \* history: key ids generated so far
    usedToks,   \* history: tokens generated so far
    nreq,       \* number of API requests handled
    nticks,     \* number of clock advances
    guardIn,    \* quota guard or pruning alone: the key record and time given
    guardOut,   \* quota guard or pruning alone: <<>> or the results
    vlm_semaphore,  \* _vlm_semaphore of vlm_engine.py
    call,       \* per understand_image call: position and outcome
    content,    \* answer cleaning alone: message content of the backend
    cleaned,    \* answer cleaning alone: <<>> or <<the cleaned content>>
    request,    \* routes alone: the request a handler is given
    outcome,    \* routes alone: what the handler did and answered
    opOut,      \* store operations alone: the last call and what it returned
    ocrIn,      \* output shapes alone: the rows of image_to_data
    ocrOut,     \* output shapes alone: the dict perform_ocr returns
    credentials,    \* admin routes: the Authorization header of the last request
    image,      \* downscale alone: the upload given to resize_image_for_vlm
    forwarded,  \* downscale alone: <<>> or <<what the call did and returned>>
    trail, \* history: the requests, toggles and deletes made so far, in order
    gathered \* one batch_understand_images call: its items, their done callbacks, its return value

storeVars == <<keys, clock, response, hist, burst, usedIds, usedToks, nreq, nticks>>
guardVars == <<guardIn, guardOut>>
vlmVars == <<vlm_semaphore, call>>
textVars == <<content, cleaned>>
routeVars == <<request, outcome>>
opVars == <<opOut>>
ocrVars == <<ocrIn, ocrOut>>
adminVars == <<credentials>>
resizeVars == <<image, forwarded>>
trailVars == <<trail>>
gatherVars == <<gathered>>
vars == <<storeVars, guardVars, vlmVars, textVars, routeVars, opVars, ocrVars, adminVars, resizeVars, trailVars, gatherVars>>

(***************************************************************************)
(* Timestamps are persisted as ISO-8601 strings (date part, time part)     *)
(* and parsed back on every read.                                          *)
(***************************************************************************)
isoformat(t) == <<t \div DAY, t % DAY>>
fromisoformat(ts) == ts[1] * DAY + ts[2]

_hash_key(key) == <<"sha256", key.prefix, key.token>>

Min(S) == CHOOSE x \in S : \A y \in S : x <= y

HasId(ks, key_id) == \E i \in 1..Len(ks) : ks[i].id = key_id
IndexOf(ks, key_id) == Min({i \in 1..Len(ks) : ks[i].id = key_id})
Lookup(ks, key_id) == ks[IndexOf(ks, key_id)]

\* variant: the raw key is kept in the stored record
create_api_key_keeps_key(ks, key_id, raw_key, rate_limit_per_minute, rate_limit_per_day, is_active) ==
    LET key_data == [id |-> key_id,
                     key |-> raw_key,
                     key_hash |-> _hash_key(raw_key),
                     last_used |-> NoTime,
                     is_active |-> is_active,
                     rate_limit_per_minute |-> rate_limit_per_minute,
                     rate_limit_per_day |-> rate_limit_per_day,
                     total_requests |-> 0,
                     requests_log |-> <<>>]
    IN  IF HasId(ks, key_id)
        THEN [ks EXCEPT ![IndexOf(ks, key_id)] = key_data]
        ELSE Append(ks, key_data)

\* keys[key_id] = key_data; _save_keys(keys)
create_api_key(ks, key_id, raw_key, rate_limit_per_minute, rate_limit_per_day, is_active) ==
    LET key_data == [id |-> key_id,
                     key_hash |-> _hash_key(raw_key),
                     last_used |-> NoTime,
                     is_active |-> is_active,
                     rate_limit_per_minute |-> rate_limit_per_minute,
                     rate_limit_per_day |-> rate_limit_per_day,
                     total_requests |-> 0,
                     requests_log |-> <<>>]
    IN  IF HasId(ks, key_id)
        THEN [ks EXCEPT ![IndexOf(ks, key_id)] = key_data]
        ELSE Append(ks, key_data)

\* variant: the is_active flag is not consulted
validate_api_key_any(ks, raw_key) ==
    IF raw_key = NoHeader \/ raw_key.prefix # "ocr_"
    THEN <<>>
    ELSE LET key_hash == _hash_key(raw_key)
             M == {i \in 1..Len(ks) : ks[i].key_hash = key_hash}
         IN  IF M = {} THEN <<>> ELSE <<ks[Min(M)]>>

\* Optional[dict]: <<>> is None, <<key_data>> a key record
validate_api_key(ks, raw_key) ==
    IF raw_key = NoHeader \/ raw_key.prefix # "ocr_"
    THEN <<>>
    ELSE LET key_hash == _hash_key(raw_key)
             M == {i \in 1..Len(ks) : ks[i].key_hash = key_hash}
         IN  IF M = {} THEN <<>>
             ELSE IF ~ks[Min(M)].is_active THEN <<>>
             ELSE <<ks[Min(M)]>>

\* sum(1 for ts in requests_log if fromisoformat(ts).timestamp() > cutoff)
RECURSIVE CountAfter(_, _)
CountAfter(requests_log, cutoff) ==
    IF requests_log = <<>> THEN 0
    ELSE (IF fromisoformat(Head(requests_log)) > cutoff THEN 1 ELSE 0)
         + CountAfter(Tail(requests_log), cutoff)

MsgMinute == "Rate limit exceeded: too many requests per minute"
MsgDay == "Rate limit exceeded: daily limit reached"

\* variant: `>` where the code has `>=`
check_rate_limit_gt(key_data, now) ==
    LET requests_last_minute == CountAfter(key_data.requests_log, now - MINUTE)
        requests_today == CountAfter(key_data.requests_log, now - DAY)
    IN  IF requests_last_minute > key_data.rate_limit_per_minute
        THEN <<FALSE, MsgMinute>>
        ELSE IF requests_today > key_data.rate_limit_per_day
        THEN <<FALSE, MsgDay>>
        ELSE <<TRUE, "">>

\* variant: the daily ceiling is tested before the per-minute one
check_rate_limit_day_first(key_data, now) ==
    LET requests_last_minute == CountAfter(key_data.requests_log, now - MINUTE)
        requests_today == CountAfter(key_data.requests_log, now - DAY)
    IN  IF requests_today >= key_data.rate_limit_per_day
        THEN <<FALSE, MsgDay>>
        ELSE IF requests_last_minute >= key_data.rate_limit_per_minute
        THEN <<FALSE, MsgMinute>>
        ELSE <<TRUE, "">>

check_rate_limit(key_data, now) ==
    LET requests_last_minute == CountAfter(key_data.requests_log, now - MINUTE)
        requests_today == CountAfter(key_data.requests_log, now - DAY)
    IN  IF requests_last_minute >= key_data.rate_limit_per_minute
        THEN <<FALSE, MsgMinute>>
        ELSE IF requests_today >= key_data.rate_limit_per_day
        THEN <<FALSE, MsgDay>>
        ELSE <<TRUE, "">>

\* variant: only the oldest entry is dropped, when it is older than a day
prune_oldest(requests_log, now) ==
    IF requests_log # <<>> /\ ~(fromisoformat(Head(requests_log)) > now - DAY)
    THEN Tail(requests_log)
    ELSE requests_log

\* "Keep only last 24 hours of requests": the list comprehension of
\* update_key_usage
prune(requests_log, now) ==
    LET cutoff == now - DAY
        Recent(ts) == fromisoformat(ts) > cutoff
    IN  SelectSeq(requests_log, Recent)

\* variant: the pruned log is not stored back
update_key_usage_lost_log(ks, key_id, now) ==
    IF ~HasId(ks, key_id) THEN ks
    ELSE LET i == IndexOf(ks, key_id)
         IN  [ks EXCEPT ![i] = [@ EXCEPT
                 !.last_used = isoformat(now),
                 !.total_requests = @ + 1]]

\* variant: the log is pruned to the last minute instead of the last day
update_key_usage_prune_minute(ks, key_id, now) ==
    IF ~HasId(ks, key_id) THEN ks
    ELSE LET i == IndexOf(ks, key_id)
             cutoff == now - MINUTE
             Recent(ts) == fromisoformat(ts) > cutoff
             requests_log == Append(ks[i].requests_log, isoformat(now))
         IN  [ks EXCEPT ![i] = [@ EXCEPT
                 !.last_used = isoformat(now),
                 !.total_requests = @ + 1,
                 !.requests_log = SelectSeq(requests_log, Recent)]]

\* variant: the new entry is appended and nothing is pruned
update_key_usage_no_prune(ks, key_id, now) ==
    IF ~HasId(ks, key_id) THEN ks
    ELSE LET i == IndexOf(ks, key_id)
         IN  [ks EXCEPT ![i] = [@ EXCEPT
                 !.last_used = isoformat(now),
                 !.total_requests = @ + 1,
                 !.requests_log = Append(@, isoformat(now))]]

\* variant: the total is recounted from the pruned log
update_key_usage_recount(ks, key_id, now) ==
    IF ~HasId(ks, key_id) THEN ks
    ELSE LET i == IndexOf(ks, key_id)
             cutoff == now - DAY
             Recent(ts) == fromisoformat(ts) > cutoff
             requests_log == SelectSeq(Append(ks[i].requests_log, isoformat(now)), Recent)
         IN  [ks EXCEPT ![i] = [@ EXCEPT
                 !.last_used = isoformat(now),
                 !.total_requests = Len(requests_log),
                 !.requests_log = requests_log]]

\* variant: usage for an unknown id starts a record for it
update_key_usage_upsert(ks, key_id, now) ==
    LET fresh == [id |-> key_id, key_hash |-> <<"sha256", "", <<"", 0>>>>,
                  last_used |-> NoTime, is_active |-> TRUE,
                  rate_limit_per_minute |-> DEFAULT_PER_MINUTE,
                  rate_limit_per_day |-> DEFAULT_PER_DAY,
                  total_requests |-> 0, requests_log |-> <<>>]
        known == IF HasId(ks, key_id) THEN ks ELSE Append(ks, fresh)
        i == IndexOf(known, key_id)
        cutoff == now - DAY
        Recent(ts) == fromisoformat(ts) > cutoff
        requests_log == Append(known[i].requests_log, isoformat(now))
    IN  [known EXCEPT ![i] = [@ EXCEPT
            !.last_used = isoformat(now),
            !.total_requests = @ + 1,
            !.requests_log = SelectSeq(requests_log, Recent)]]

update_key_usage(ks, key_id, now) ==
    IF ~HasId(ks, key_id) THEN ks
    ELSE LET i == IndexOf(ks, key_id)
             requests_log == Append(ks[i].requests_log, isoformat(now))
         IN  [ks EXCEPT ![i] = [@ EXCEPT
                 !.last_used = isoformat(now),
                 !.total_requests = @ + 1,
                 !.requests_log = prune(requests_log, now)]]

\* variant: the record written back was loaded before the last usage update
toggle_api_key_stale(ks, key_id, is_active) ==
    IF ~HasId(ks, key_id) THEN ks
    ELSE [ks EXCEPT ![IndexOf(ks, key_id)] = [@ EXCEPT
            !.is_active = is_active,
            !.total_requests = IF @ > 0 THEN @ - 1 ELSE 0,
            !.requests_log = IF @ = <<>> THEN @ ELSE SubSeq(@, 1, Len(@) - 1)]]

\* variant: enabling a credential starts its usage log afresh
toggle_api_key_reset(ks, key_id, is_active) ==
    IF ~HasId(ks, key_id) THEN ks
    ELSE [ks EXCEPT ![IndexOf(ks, key_id)] = [@ EXCEPT
            !.is_active = is_active,
            !.requests_log = IF is_active THEN <<>> ELSE @]]

toggle_api_key(ks, key_id, is_active) ==
    IF ~HasId(ks, key_id) THEN ks
    ELSE [ks EXCEPT ![IndexOf(ks, key_id)].is_active = is_active]

\* variant: the store is cut at the deleted record
delete_api_key_truncate(ks, key_id) ==
    IF ~HasId(ks, key_id) THEN ks
    ELSE SubSeq(ks, 1, IndexOf(ks, key_id) - 1)

\* variant: the record is kept and switched off
delete_api_key_disable(ks, key_id) ==
    IF ~HasId(ks, key_id) THEN ks
    ELSE [ks EXCEPT ![IndexOf(ks, key_id)].is_active = FALSE]

delete_api_key(ks, key_id) ==
    IF ~HasId(ks, key_id) THEN ks
    ELSE SelectSeq(ks, LAMBDA kd : kd.id # key_id)

(***************************************************************************)
(* get_api_key: the authentication dependency of every OCR route.  now1 is *)
(* the clock read by check_rate_limit, now2 >= now1 the clock read by      *)
(* update_key_usage.  The result is the HTTP outcome and the new store.    *)
(***************************************************************************)
MsgMissing == "Missing API key. Include 'X-API-Key' header."
MsgInvalid == "Invalid or inactive API key"

\* variant: usage is recorded before the limits are checked
get_api_key_record_first(ks, api_key, now1, now2) ==
    IF api_key = NoHeader
    THEN [code |-> 401, detail |-> MsgMissing, id |-> None, keys |-> ks]
    ELSE LET found == validate_api_key(ks, api_key)
         IN  IF found = <<>>
             THEN [code |-> 401, detail |-> MsgInvalid, id |-> None, keys |-> ks]
             ELSE LET recorded == update_key_usage(ks, found[1].id, now1)
                      chk == check_rate_limit(Lookup(recorded, found[1].id), now2)
                  IN  [code |-> IF chk[1] THEN 200 ELSE 429, detail |-> chk[2],
                       id |-> found[1].id, keys |-> recorded]

get_api_key(ks, api_key, now1, now2) ==
    IF api_key = NoHeader
    THEN [code |-> 401, detail |-> MsgMissing, id |-> None, keys |-> ks]
    ELSE LET found == validate_api_key(ks, api_key)
         IN  IF found = <<>>
             THEN [code |-> 401, detail |-> MsgInvalid, id |-> None, keys |-> ks]
             ELSE LET key_data == found[1]
                      chk == check_rate_limit(key_data, now1)
                  IN  IF ~chk[1]
                      THEN [code |-> 429, detail |-> chk[2], id |-> key_data.id, keys |-> ks]
                      ELSE [code |-> 200, detail |-> "", id |-> key_data.id,
                            keys |-> update_key_usage(ks, key_data.id, now2)]

(***************************************************************************)
(* History bookkeeping (not program state).                                *)
(***************************************************************************)
InWindow(h, now, width) == {i \in 1..Len(h) : h[i] > now - width}

\* quota left for key record kd at time now, from the history of admissions
Remaining(kd, h, now) ==
    LET m == kd.rate_limit_per_minute - Cardinality(InWindow(h, now, MINUTE))
        d == kd.rate_limit_per_day - Cardinality(InWindow(h, now, DAY))
    IN  IF m <= d THEN m ELSE d

NoBurst == [t |-> -1, n |-> 0, a |-> 0, k |-> 0]

NoSemaphore == [created |-> FALSE, value |-> 0, waiters |-> <<>>]
Calls == 1..MaxCalls
IdleCall == [pc |-> "idle", kind |-> "", probe |-> "", status |-> "", posts |-> 0,
             probes |-> 0, aborted |-> FALSE,
             reply |-> "", exc |-> "", http |-> 0]

InitStore ==
    /\ keys = <<>>
    /\ clock = 0
    /\ response = [key |-> NoHeader, code |-> 0, detail |-> "", id |-> None]
    /\ hist = [c \in KeyIds |-> <<>>]
    /\ burst = [c \in KeyIds |-> NoBurst]
    /\ usedIds = {}
    /\ usedToks = {}
    /\ nreq = 0
    /\ nticks = 0

InitGuard ==
    /\ guardIn = [times |-> <<>>, now |-> 0,
                  key_data |-> [requests_log |-> <<>>, rate_limit_per_minute |-> 1,
                                rate_limit_per_day |-> 1]]
    /\ guardOut = <<>>

InitVlm ==
    /\ vlm_semaphore = NoSemaphore
    /\ call = [u \in Calls |-> IdleCall]

InitText ==
    /\ content = <<>>
    /\ cleaned = <<>>

NoOutcome == [code |-> 0, detail |-> "", results |-> <<>>, total_files |-> 0,
              successful |-> 0, failed |-> 0,
              decoded |-> {}, engine |-> {}, probed |-> {}, posted |-> {}]

InitRoute ==
    /\ request = [route |-> "", auth |-> 0, language |-> "", files |-> <<>>]
    /\ outcome = NoOutcome

NoKey == [prefix |-> "", token |-> <<"", 0>>]
NoCall == [op |-> "", id |-> None, ret |-> "", code |-> 0, key |-> NoKey, body |-> <<>>]

InitOps == opOut = NoCall

NoResult ==
    [shape |-> "", words |-> <<>>, text |-> <<>>, confidence |-> <<0, 1>>,
     word_count |-> 0, line_count |-> 0]

\* no Authorization header
NoCredentials == [kind |-> "none", signed |-> FALSE, type |-> "", exp |-> 0, key |-> NoKey]

InitAdmin == credentials = NoCredentials

\* an upload: whether Image.open reads it, its size and its mode
NoImage == [opens |-> FALSE, width |-> 0, height |-> 0, mode |-> ""]

InitResize ==
    /\ image = NoImage
    /\ forwarded = <<>>

InitTrail ==
    trail = <<>>

NoBatch == [pc |-> "none", items |-> <<>>, seen |-> <<>>, results |-> <<>>]

InitGather ==
    gathered = NoBatch

InitOcr ==
    /\ ocrIn = <<>>
    /\ ocrOut = NoResult

Init == InitStore /\ InitGuard /\ InitVlm /\ InitText /\ InitRoute /\ InitOps /\ InitOcr /\ InitAdmin /\ InitResize /\ InitTrail /\ InitGather

\* The values token_hex and token_urlsafe return next: values never returned
\* before (they are opaque, so the least unused one stands for any of them).
Fresh(S, used) == {x \in S \ used : \A y \in S \ used : x = y \/ x[2] < y[2]}

\* POST /admin/keys
CreateKey(key_id, tok, lpm, lpd, is_active) ==
    /\ key_id \in Fresh(KeyIds, usedIds)
    /\ tok \in Fresh(Tokens, usedToks)
    /\ keys' = create_api_key(keys, key_id, generate_api_key(tok), lpm, lpd, is_active)
    /\ usedIds' = usedIds \cup {key_id}
    /\ usedToks' = usedToks \cup {tok}
    /\ UNCHANGED <<clock, response, hist, burst, nreq, nticks, guardVars, vlmVars, textVars, routeVars, opVars, ocrVars, adminVars, resizeVars, trailVars, gatherVars>>

\* PATCH /admin/keys/{key_id}/toggle
ToggleKey(key_id, is_active) ==
    /\ keys' = toggle_api_key(keys, key_id, is_active)
    /\ UNCHANGED <<clock, response, hist, burst, usedIds, usedToks, nreq, nticks, guardVars, vlmVars, textVars, routeVars, opVars, ocrVars, adminVars, resizeVars, trailVars, gatherVars>>

\* DELETE /admin/keys/{key_id}
DeleteKey(key_id) ==
    /\ keys' = delete_api_key(keys, key_id)
    /\ hist' = [hist EXCEPT ![key_id] = <<>>]
    /\ burst' = [burst EXCEPT ![key_id] = NoBurst]
    /\ UNCHANGED <<clock, response, usedIds, usedToks, nreq, nticks, guardVars, vlmVars, textVars, routeVars, opVars, ocrVars, adminVars, resizeVars, trailVars, gatherVars>>

\* One API request passing through Depends(get_api_key); d seconds elapse
\* between the clock read of check_rate_limit and that of update_key_usage.
Request(api_key, d) ==
    /\ nreq < MaxRequests
    /\ d > 0 => nticks < MaxTicks
    /\ LET r == get_api_key(keys, api_key, clock, clock + d)
           c == r.id
       IN  /\ keys' = r.keys
           /\ response' = [key |-> api_key, code |-> r.code, detail |-> r.detail, id |-> r.id]
           /\ hist' = IF r.code = 200 THEN [hist EXCEPT ![c] = Append(@, clock + d)]
                      ELSE hist
           /\ burst' = IF c = None THEN burst
                       ELSE LET adm == IF r.code = 200 THEN 1 ELSE 0
                                b == burst[c]
                            IN  IF b.t = clock
                                THEN [burst EXCEPT ![c] = [b EXCEPT !.n = @ + 1, !.a = @ + adm]]
                                ELSE [burst EXCEPT ![c] =
                                        [t |-> clock, n |-> 1, a |-> adm,
                                         k |-> Remaining(Lookup(keys, c), hist[c], clock)]]
    /\ clock' = clock + d
    /\ nreq' = nreq + 1
    /\ nticks' = IF d > 0 THEN nticks + 1 ELSE nticks
    /\ UNCHANGED <<usedIds, usedToks, guardVars, vlmVars, textVars, routeVars, opVars, ocrVars, adminVars, resizeVars, trailVars, gatherVars>>

Tick(d) ==
    /\ nticks < MaxTicks
    /\ clock' = clock + d
    /\ nticks' = nticks + 1
    /\ UNCHANGED <<keys, response, hist, burst, usedIds, usedToks, nreq, guardVars, vlmVars, textVars, routeVars, opVars, ocrVars, adminVars, resizeVars, trailVars, gatherVars>>

Next ==
    \/ \E key_id \in KeyIds, tok \in Tokens, lpm \in LimitsPerMinute,
          lpd \in LimitsPerDay, is_active \in BOOLEAN :
            CreateKey(key_id, tok, lpm, lpd, is_active)
    \/ \E key_id \in KeyIds, is_active \in BOOLEAN : ToggleKey(key_id, is_active)
    \/ \E key_id \in KeyIds : DeleteKey(key_id)
    \/ \E api_key \in Headers, d \in Delays : Request(api_key, d)
    \/ \E d \in Jumps : Tick(d)

Spec == Init /\ [][Next]_vars

(***************************************************************************)
(* Properties of the credential store and the quota guard.                 *)
(***************************************************************************)
IsRequestStep == nreq' = nreq + 1

\* number of admissions of history h in the window of the given width
\* that ends at time e
AdmittedIn(h, e, width) ==
    Cardinality({j \in 1..Len(h) : h[j] <= e /\ h[j] > e - width})

\* C1: for every credential, the admitted requests recorded in any trailing
\* 60-second window never exceed limit_per_minute, and those in any trailing
\* 86400-second window never exceed limit_per_day.  A window holds the most
\* admissions when it ends at one of them, or now.
C1_WindowLimits ==
    \A i \in 1..Len(keys) :
        LET h == hist[keys[i].id]
        IN  \A e \in {h[j] : j \in 1..Len(h)} \cup {clock} :
                /\ AdmittedIn(h, e, MINUTE) <= keys[i].rate_limit_per_minute
                /\ AdmittedIn(h, e, DAY) <= keys[i].rate_limit_per_day

\* a credential that was admitted more often than its daily limit because
\* old admissions left the window, and whose minute window is full again
C1_Witness ==
    \E i \in 1..Len(keys) :
        LET h == hist[keys[i].id]
        IN  /\ Len(h) > keys[i].rate_limit_per_day
            /\ AdmittedIn(h, clock, MINUTE) = keys[i].rate_limit_per_minute

\* C2: of the N requests decided at one instant for a credential with
\* remaining quota K, exactly min(N, K) are admitted and the others denied.
C2_RaceFree ==
    \A c \in KeyIds :
        (burst[c].t = clock /\ HasId(keys, c)) =>
            /\ burst[c].k >= 0
            /\ burst[c].a = (IF burst[c].n <= burst[c].k THEN burst[c].n ELSE burst[c].k)

\* two simultaneous requests for the one slot a credential of limit 2 has left
C2_Witness ==
    \E c \in KeyIds :
        /\ HasId(keys, c)
        /\ Lookup(keys, c).rate_limit_per_minute = 2
        /\ burst[c] = [t |-> clock, n |-> 2, a |-> 1, k |-> 1]

\* C3: a request on a valid credential is denied with the per-minute reason
\* when limit_per_minute earlier admissions lie in the window, and admitted
\* when fewer do and the daily ceiling is not reached; the request itself is
\* not counted.
C3_NthAdmitted ==
    [][(IsRequestStep /\ response'.id # None) =>
        LET kd == Lookup(keys, response'.id)
            cm == Cardinality(InWindow(hist[kd.id], clock, MINUTE))
            cd == Cardinality(InWindow(hist[kd.id], clock, DAY))
        IN  /\ cm >= kd.rate_limit_per_minute =>
                (response'.code = 429 /\ response'.detail = MsgMinute)
            /\ (cm < kd.rate_limit_per_minute /\ cd < kd.rate_limit_per_day) =>
                response'.code = 200
    ]_vars

\* limit_per_minute = 2, three rapid requests: two admitted, the third denied
C3_Witness ==
    /\ nreq = 3
    /\ clock = 0
    /\ response.code = 429
    /\ response.detail = MsgMinute
    /\ \E i \in 1..Len(keys) :
        /\ keys[i].id = response.id
        /\ keys[i].rate_limit_per_minute = 2
        /\ keys[i].total_requests = 2
        /\ hist[keys[i].id] = <<0, 0>>

\* C4: a request that is not admitted leaves the store as it was; the store
\* changes in a request only when the request is admitted.
C4_DeniedRecordsNothing ==
    [][IsRequestStep => (response'.code # 200 <=> keys' = keys)]_vars

\* a request denied for the daily ceiling
C4_Witness ==
    /\ response.code = 429
    /\ response.detail = MsgDay
    /\ \E i \in 1..Len(keys) :
        /\ keys[i].id = response.id
        /\ keys[i].total_requests = keys[i].rate_limit_per_day
        /\ Len(keys[i].requests_log) = keys[i].rate_limit_per_day

\* C6: a request presenting the secret of a credential whose active flag is
\* false fails authentication (401, never 429 or 200), whatever its quota.
C6_InactiveRejected ==
    [][(IsRequestStep /\ \E i \in 1..Len(keys) :
            /\ keys[i].key_hash = _hash_key(response'.key)
            /\ ~keys[i].is_active) =>
        (response'.code = 401 /\ response'.detail = MsgInvalid /\ response'.id = None)
    ]_vars

\* an inactive credential with an exhausted minute quota was refused with 401
C6_Witness ==
    /\ response.code = 401
    /\ response.detail = MsgInvalid
    /\ \E i \in 1..Len(keys) :
        /\ keys[i].key_hash = _hash_key(response.key)
        /\ ~keys[i].is_active
        /\ CountAfter(keys[i].requests_log, clock - MINUTE) >= keys[i].rate_limit_per_minute

(***************************************************************************)
(* The quota guard alone: check_rate_limit applied to a usage log the      *)
(* store can hold.  update_key_usage appends in clock order, prunes to the *)
(* 24 hours before the last write, and only writes after an admission, so  *)
(* a log is chronological, spans less than a day and respects both         *)
(* ceilings; the guard may be asked at any later time.                     *)
(***************************************************************************)
GuardTimes == {0, 1, 60, 61, 86400, 86401}
GuardLimits == {1, 2, 3}

RECURSIVE SortedSeqs(_)
SortedSeqs(n) ==
    IF n = 0 THEN {<<>>}
    ELSE LET shorter == SortedSeqs(n - 1)
         IN  shorter \cup
             {Append(q, t) : q \in {r \in shorter : Len(r) = n - 1}, t \in GuardTimes}

StorableLog(times, lpm, lpd) ==
    /\ \A j \in 1..(Len(times) - 1) : times[j] <= times[j + 1]
    /\ \A j \in 1..Len(times) : times[j] > times[Len(times)] - DAY
    /\ \A j \in 1..Len(times) :
        /\ Cardinality({i \in 1..j : times[i] > times[j] - MINUTE}) <= lpm
        /\ Cardinality({i \in 1..j : times[i] > times[j] - DAY}) <= lpd

InitGuardInputs ==
    /\ guardOut = <<>>
    /\ \E times \in SortedSeqs(MaxLog), lpm \in GuardLimits, lpd \in GuardLimits,
          now \in GuardTimes :
        /\ StorableLog(times, lpm, lpd)
        /\ times # <<>> => now >= times[Len(times)]
        /\ guardIn = [times |-> times, now |-> now,
                      key_data |-> [requests_log |-> [j \in 1..Len(times) |-> isoformat(times[j])],
                                    rate_limit_per_minute |-> lpm,
                                    rate_limit_per_day |-> lpd]]

Evaluate ==
    /\ guardOut = <<>>
    /\ guardOut' = <<check_rate_limit(guardIn.key_data, guardIn.now)>>
    /\ UNCHANGED <<guardIn, storeVars, vlmVars, textVars, routeVars, opVars, ocrVars, adminVars, resizeVars, trailVars, gatherVars>>

NextGuard == Evaluate

InitGuardAlone == InitStore /\ InitGuardInputs /\ InitVlm /\ InitText /\ InitRoute /\ InitOps /\ InitOcr /\ InitAdmin /\ InitResize /\ InitTrail /\ InitGather

SpecGuard == InitGuardAlone /\ [][NextGuard]_vars

\* the decision spec.md 4.2 prescribes, on the times of the usage events
ReferenceDecision(times, lpm, lpd, now) ==
    IF Cardinality({j \in 1..Len(times) : times[j] > now - 60}) >= lpm
    THEN "deny: per-minute limit exceeded"
    ELSE IF Cardinality({j \in 1..Len(times) : times[j] > now - 86400}) >= lpd
    THEN "deny: daily limit exceeded"
    ELSE "admit"

Decision(chk) ==
    IF chk[1] THEN "admit"
    ELSE IF chk[2] = MsgMinute THEN "deny: per-minute limit exceeded"
    ELSE IF chk[2] = MsgDay THEN "deny: daily limit exceeded"
    ELSE "deny"

\* C5: check_rate_limit decides as the reference does for every usage log,
\* pair of limits and time: per-minute denial first, then daily denial,
\* otherwise admission.
C5_MatchesReference ==
    guardOut # <<>> =>
        Decision(guardOut[1]) =
            ReferenceDecision(guardIn.times, guardIn.key_data.rate_limit_per_minute,
                              guardIn.key_data.rate_limit_per_day, guardIn.now)

\* both ceilings are reached and the reason given is the per-minute one
C5_Witness ==
    /\ guardOut = <<(<<FALSE, MsgMinute>>)>>
    /\ Cardinality({j \in 1..Len(guardIn.times) : guardIn.times[j] > guardIn.now - DAY})
          >= guardIn.key_data.rate_limit_per_day

(***************************************************************************)
(* The remote understanding dispatcher (vlm_engine.py).                    *)
(*                                                                         *)
(* The gate is an asyncio.Semaphore: acquire() takes a slot at once when   *)
(* the semaphore is not locked and otherwise queues a waiter; release()    *)
(* returns the slot and hands it to the first waiter still waiting, which  *)
(* resumes later.  A waiter entry is <<call, granted>>.                    *)
(***************************************************************************)
NewSemaphore == [created |-> TRUE, value |-> VLM_MAX_CONCURRENT, waiters |-> <<>>]

\* variant: a semaphore is made for every call
get_vlm_semaphore_per_call(sem) == NewSemaphore

get_vlm_semaphore(sem) == IF ~sem.created THEN NewSemaphore ELSE sem

locked(sem) == sem.value = 0 \/ sem.waiters # <<>>

_wake_up_next(sem) ==
    LET W == {i \in 1..Len(sem.waiters) : ~sem.waiters[i][2]}
    IN  IF W = {} THEN sem
        ELSE [sem EXCEPT !.value = @ - 1, !.waiters[Min(W)] = <<@[1], TRUE>>]

\* variant: the slot is counted back but no waiter is woken
release_no_wake(sem) == [sem EXCEPT !.value = @ + 1]

release(sem) == _wake_up_next([sem EXCEPT !.value = @ + 1])

\* variant: the slot is given back only when the block ends without exception
exit_gate_on_success(sem, exc) == IF exc = "ok" THEN release(sem) ELSE sem

\* `async with semaphore:` left with outcome exc: __aexit__ releases
exit_gate(sem, exc) == release(sem)

Granted(sem, u) == \E i \in 1..Len(sem.waiters) : sem.waiters[i] = <<u, TRUE>>

\* the waiter of call u leaves the queue once it resumes
leave_queue(sem, u) ==
    LET rest == [sem EXCEPT !.waiters = SelectSeq(@, LAMBDA w : w[1] # u)]
    IN  IF rest.value > 0 THEN _wake_up_next(rest) ELSE rest

\* outcomes of the health probe httpx.get(.../health, timeout=5.0)
ProbeResults == {"200", "503", "error"}

\* variant: any answer of the backend counts as healthy
get_vlm_status_any_answer(probe) ==
    IF probe = "error" THEN "offline" ELSE "healthy"

get_vlm_status(probe) ==
    IF probe = "error" THEN "offline"
    ELSE IF probe = "200" THEN "healthy"
    ELSE "unhealthy"

\* outcomes of client.post(.../v1/chat/completions) under timeout VLM_TIMEOUT
PostReplies == {"2xx", "timeout", "non2xx", "transport_error"}

\* the try block around the inference call: the exception it raises
post_outcome(reply) ==
    IF reply = "timeout" THEN "TimeoutError"
    ELSE IF reply = "non2xx" THEN "RuntimeError: VLM server error: status - body"
    ELSE IF reply = "transport_error" THEN "RuntimeError: VLM request failed"
    ELSE "ok"

\* understand_document: the HTTP status each outcome is surfaced with
understand_document(exc) ==
    IF exc = "ok" THEN 200
    ELSE IF exc = "ConnectionError" THEN 503
    ELSE IF exc = "TimeoutError" THEN 504
    ELSE 500

\* process_single of batch_understand_images: the item record, no HTTP error
Surface(kind, exc) == IF kind = "route" THEN understand_document(exc) ELSE 0

\* understand_image from the moment it holds a slot up to its first
\* suspension: health probe, then either ConnectionError or the inference
\* call being issued.
EnterGate(sem, u, kind, probe) ==
    LET status == get_vlm_status(probe)
    IN  IF status # "healthy"
        THEN /\ vlm_semaphore' = exit_gate(sem, "ConnectionError")
             /\ call' = [call EXCEPT ![u] =
                    [pc |-> "done", kind |-> kind, probe |-> probe, status |-> status, posts |-> 0,
                     probes |-> call[u].probes + 1, aborted |-> call[u].aborted,
                     reply |-> "", exc |-> "ConnectionError",
                     http |-> Surface(kind, "ConnectionError")]]
        ELSE /\ vlm_semaphore' = sem
             /\ call' = [call EXCEPT ![u] =
                    [pc |-> "inflight", kind |-> kind, probe |-> probe, status |-> status, posts |-> 1,
                     probes |-> call[u].probes + 1, aborted |-> call[u].aborted,
                     reply |-> "", exc |-> "", http |-> 0]]

\* understand_image is called, by the route or for an item of a batch
StartCall(u, kind, probe) ==
    /\ call[u].pc = "idle"
    /\ LET sem == get_vlm_semaphore(vlm_semaphore)
       IN  IF ~locked(sem)
           THEN EnterGate([sem EXCEPT !.value = @ - 1], u, kind, probe)
           ELSE /\ vlm_semaphore' = [sem EXCEPT !.waiters = Append(@, <<u, FALSE>>)]
                /\ call' = [call EXCEPT ![u] = [@ EXCEPT !.pc = "waiting", !.kind = kind]]
    /\ UNCHANGED <<storeVars, guardVars, textVars, routeVars, opVars, ocrVars, adminVars, resizeVars, trailVars, gatherVars>>

\* a queued call that was handed a slot resumes
ResumeCall(u, probe) ==
    /\ call[u].pc = "waiting"
    /\ Granted(vlm_semaphore, u)
    /\ EnterGate(leave_queue(vlm_semaphore, u), u, call[u].kind, probe)
    /\ UNCHANGED <<storeVars, guardVars, textVars, routeVars, opVars, ocrVars, adminVars, resizeVars, trailVars, gatherVars>>

\* variant: a timed-out inference call is issued a second time
Respond_retry(u, reply) ==
    /\ call[u].pc = "inflight"
    /\ IF reply = "timeout" /\ call[u].posts < 2
       THEN /\ vlm_semaphore' = vlm_semaphore
            /\ call' = [call EXCEPT ![u].posts = @ + 1]
       ELSE LET exc == post_outcome(reply)
            IN  /\ vlm_semaphore' = exit_gate(vlm_semaphore, exc)
                /\ call' = [call EXCEPT ![u] = [@ EXCEPT
                         !.pc = "done", !.reply = reply, !.exc = exc,
                         !.http = Surface(call[u].kind, exc)]]
    /\ UNCHANGED <<storeVars, guardVars, textVars, routeVars, opVars, ocrVars, adminVars, resizeVars, trailVars, gatherVars>>

\* the inference call of u completes, fails or times out
Respond(u, reply) ==
    /\ call[u].pc = "inflight"
    /\ LET exc == post_outcome(reply)
       IN  /\ vlm_semaphore' = exit_gate(vlm_semaphore, exc)
           /\ call' = [call EXCEPT ![u] = [@ EXCEPT
                    !.pc = "done", !.reply = reply, !.exc = exc,
                    !.http = Surface(call[u].kind, exc)]]
    /\ UNCHANGED <<storeVars, guardVars, textVars, routeVars, opVars, ocrVars, adminVars, resizeVars, trailVars, gatherVars>>

\* variant: the disconnect cancels the task: CancelledError is raised at its
\* await, the HTTP client is closed and the gate is left
Abort_cancels(u) ==
    /\ call[u].pc = "inflight"
    /\ Cardinality({v \in Calls : call[v].aborted}) < MaxAborts
    /\ vlm_semaphore' = exit_gate(vlm_semaphore, "CancelledError")
    /\ call' = [call EXCEPT ![u] = [@ EXCEPT
             !.pc = "done", !.aborted = TRUE, !.exc = "CancelledError"]]
    /\ UNCHANGED <<storeVars, guardVars, textVars, routeVars, opVars, ocrVars, adminVars, resizeVars, trailVars, gatherVars>>

\* The client of call u disconnects while the inference call is in flight.
\* The server notes the disconnect; no code of the service looks at it or
\* cancels the handler, so the coroutine goes on as before and only its
\* answer is no longer delivered.
Abort(u) ==
    /\ call[u].pc = "inflight"
    /\ Cardinality({v \in Calls : call[v].aborted}) < MaxAborts
    /\ call' = [call EXCEPT ![u].aborted = TRUE]
    /\ UNCHANGED <<vlm_semaphore, storeVars, guardVars, textVars, routeVars, opVars, ocrVars, adminVars, resizeVars, trailVars, gatherVars>>

NextVlm ==
    \/ \E u \in Calls, kind \in {"route", "batch"}, probe \in ProbeResults :
          StartCall(u, kind, probe)
    \/ \E u \in Calls, probe \in ProbeResults : ResumeCall(u, probe)
    \/ \E u \in Calls, reply \in PostReplies : Respond(u, reply)
    \/ \E u \in Calls : Abort(u)

SpecVlm == Init /\ [][NextVlm]_vars

InFlight == {u \in Calls : call[u].pc = "inflight"}
HoldsSlot(u) ==
    call[u].pc = "inflight" \/ (call[u].pc = "waiting" /\ Granted(vlm_semaphore, u))

\* C7: at most VLM_MAX_CONCURRENT inference calls are in flight at any
\* moment, whatever mix of route calls and batch items is running; they all
\* pass the one semaphore.
C7_GateBound == Cardinality(InFlight) <= VLM_MAX_CONCURRENT

\* a burst larger than the gate: the gate is full and a call is queued
C7_Witness ==
    /\ Cardinality(InFlight) = VLM_MAX_CONCURRENT
    /\ \E u \in Calls : call[u].pc = "waiting"
    /\ \E u, v \in InFlight : call[u].kind = "route" /\ call[v].kind = "batch"

\* C8: every slot taken is given back on every exit path: the free slots and
\* the slots held always add up to the gate size, and when no call is in
\* progress all slots are free.
C8_SlotsReleased ==
    vlm_semaphore.created =>
        /\ vlm_semaphore.value + Cardinality({u \in Calls : HoldsSlot(u)}) = VLM_MAX_CONCURRENT
        /\ (\A u \in Calls : call[u].pc \in {"idle", "done"}) =>
                (vlm_semaphore.value = VLM_MAX_CONCURRENT /\ vlm_semaphore.waiters = <<>>)

\* all calls are over, by an unhealthy probe, a timeout and a non-2xx answer
C8_Witness ==
    /\ \A u \in Calls : call[u].pc = "done"
    /\ \E u, v, w \in Calls :
        /\ call[u].exc = "ConnectionError"
        /\ call[v].reply = "timeout"
        /\ call[w].reply = "non2xx"

\* C9: a call whose health probe fails or answers with a status other than
\* 200 ends with
\* ConnectionError, surfaced by the route as 503, and never issues the
\* inference call.
C9_UnhealthyNoInference ==
    \A u \in Calls :
        call[u].probe \in {"503", "error"} =>
            /\ call[u].pc = "done"
            /\ call[u].posts = 0
            /\ call[u].exc = "ConnectionError"
            /\ call[u].kind = "route" => call[u].http = 503

\* a route call refused for a non-200 probe, next to a call that was served
C9_Witness ==
    \E u \in Calls :
        /\ call[u].probe = "503"
        /\ call[u].kind = "route"
        /\ call[u].http = 503
        /\ \E v \in Calls \ {u} : call[v].pc = "done" /\ call[v].posts = 1

\* C10: a timed-out inference call surfaces as a timeout, a non-2xx answer as
\* a backend error, any other transport failure as backend-unavailable, and
\* the route gives each of the three its own status.
C10_FailureTaxonomy ==
    \A u \in Calls :
        (call[u].pc = "done" /\ call[u].kind = "route") =>
            /\ call[u].reply = "timeout" =>
                  (call[u].exc = "TimeoutError" /\ call[u].http = 504)
            /\ call[u].reply = "non2xx" =>
                  (call[u].exc = "RuntimeError: VLM server error: status - body"
                   /\ call[u].http = 500)
            /\ call[u].reply = "transport_error" =>
                  (call[u].exc = "ConnectionError" /\ call[u].http = 503)

(***************************************************************************)
(* Cleaning of the backend's answer (understand_image, after the POST).    *)
(* The message content is a string; it is modelled as a sequence of        *)
(* tokens in which the two reasoning delimiters are single tokens.         *)
(***************************************************************************)
OPEN == "<think>"
CLOSE == "</think>"
ContentTokens == {"a", " ", OPEN, CLOSE}

RECURSIVE SeqsUpTo(_, _)
SeqsUpTo(S, n) ==
    IF n = 0 THEN {<<>>}
    ELSE LET shorter == SeqsUpTo(S, n - 1)
         IN shorter \cup {Append(q, x) : q \in shorter, x \in S}

\* `d in s`
Contains(s, d) == \E i \in 1..Len(s) : s[i] = d

\* s.split(d): the pieces of s between the occurrences of d
RECURSIVE split(_, _)
split(s, d) ==
    IF ~Contains(s, d) THEN <<s>>
    ELSE LET i == CHOOSE j \in 1..Len(s) : s[j] = d /\ \A k \in 1..(j - 1) : s[k] # d
         IN <<SubSeq(s, 1, i - 1)>> \o split(SubSeq(s, i + 1, Len(s)), d)

\* s.replace(d, "")
replace(s, d) == SelectSeq(s, LAMBDA c : c # d)

\* s.strip(): leading, then trailing whitespace removed
RECURSIVE lstrip(_)
lstrip(s) == IF s # <<>> /\ Head(s) = " " THEN lstrip(Tail(s)) ELSE s
RECURSIVE rstrip(_)
rstrip(s) == IF s # <<>> /\ s[Len(s)] = " " THEN rstrip(SubSeq(s, 1, Len(s) - 1)) ELSE s
strip(s) == rstrip(lstrip(s))

\* Variant: keeps the piece before the first closing delimiter.
clean_content_first_part(c) ==
    IF Contains(c, CLOSE)
    THEN LET parts == split(c, CLOSE)
         IN IF Len(parts) > 1 THEN strip(parts[1])
            ELSE strip(replace(replace(c, OPEN), CLOSE))
    ELSE IF Contains(c, OPEN) THEN strip(replace(c, OPEN))
    ELSE c

\* Variant: when nothing follows the last closing delimiter, the reasoning
\* is shown without its delimiters.
clean_content_show_thinking(c) ==
    IF Contains(c, CLOSE)
    THEN LET parts == split(c, CLOSE)
         IN IF parts[Len(parts)] # <<>> THEN strip(parts[Len(parts)])
            ELSE strip(replace(replace(c, OPEN), CLOSE))
    ELSE IF Contains(c, OPEN) THEN strip(replace(c, OPEN))
    ELSE c

\* vlm_engine.py, lines 172-185
clean_content(c) ==
    IF Contains(c, CLOSE)
    THEN LET parts == split(c, CLOSE)
         IN IF Len(parts) > 1 THEN strip(parts[Len(parts)])
            ELSE strip(replace(replace(c, OPEN), CLOSE))
    ELSE IF Contains(c, OPEN) THEN strip(replace(c, OPEN))
    ELSE c

InitTextInputs ==
    /\ content \in SeqsUpTo(ContentTokens, MaxContent)
    /\ cleaned = <<>>

Clean ==
    /\ cleaned = <<>>
    /\ cleaned' = <<clean_content(content)>>
    /\ UNCHANGED <<content, storeVars, guardVars, vlmVars, routeVars, opVars, ocrVars, adminVars, resizeVars, trailVars, gatherVars>>

NextText == Clean

InitTextAlone == InitStore /\ InitGuard /\ InitVlm /\ InitTextInputs /\ InitRoute /\ InitOps /\ InitOcr /\ InitAdmin /\ InitResize /\ InitTrail /\ InitGather

SpecText == InitTextAlone /\ [][NextText]_vars

\* What the statement of the answer cleaning refers to, written without the
\* string methods of the code.
LastClose(c) == CHOOSE j \in 1..Len(c) : c[j] = CLOSE /\ \A k \in (j + 1)..Len(c) : c[k] # CLOSE
AfterClose(c) == SubSeq(c, LastClose(c) + 1, Len(c))
WithoutOpen(c) == SelectSeq(c, LAMBDA x : x # OPEN)
Trimmed(s) ==
    LET solid == {i \in 1..Len(s) : s[i] # " "}
    IN IF solid = {} THEN <<>>
       ELSE SubSeq(s, CHOOSE i \in solid : \A j \in solid : i <= j,
                      CHOOSE i \in solid : \A j \in solid : i >= j)

\* C11: an answer holding a closing reasoning delimiter yields only the
\* content after that delimiter, an answer holding only the opening
\* delimiter yields the content with the marker removed, and an answer
\* holding neither is returned unchanged.
C11_CleanedAnswer ==
    cleaned # <<>> =>
        /\ Contains(content, CLOSE) => cleaned[1] = AfterClose(content)
        /\ (~Contains(content, CLOSE) /\ Contains(content, OPEN)) =>
               cleaned[1] = WithoutOpen(content)
        /\ (~Contains(content, CLOSE) /\ ~Contains(content, OPEN)) =>
               cleaned[1] = content

\* C11, amended: with a closing delimiter the answer is the content after
\* the last closing delimiter with leading and trailing whitespace trimmed;
\* with only opening delimiters it is the content without them, trimmed the
\* same way; with neither it is returned unchanged, whitespace included.
C11_CleanedAnswerTrimmed ==
    cleaned # <<>> =>
        /\ Contains(content, CLOSE) => cleaned[1] = Trimmed(AfterClose(content))
        /\ (~Contains(content, CLOSE) /\ Contains(content, OPEN)) =>
               cleaned[1] = Trimmed(WithoutOpen(content))
        /\ (~Contains(content, CLOSE) /\ ~Contains(content, OPEN)) =>
               cleaned[1] = content

\* Reasoning, a closing delimiter, then a padded answer: cleaned to the
\* bare answer.
C11_Witness ==
    /\ content = <<OPEN, CLOSE, " ", "a">>
    /\ cleaned = <<(<<"a">>)>>

(***************************************************************************)
(* The extraction and understanding routes (app/routes/ocr.py,             *)
(* app/routes/understand.py) with the local engine (app/ocr_engine.py)     *)
(* and batch_understand_images (app/vlm_engine.py).  A request carries     *)
(* the outcome of its get_api_key dependency, its language and its files;  *)
(* a file is described by the one thing that is wrong with it, and its     *)
(* filename is its position in the upload.  The outcome records which      *)
(* files reached image decoding, the local engine, the health probe and    *)
(* the inference POST.                                                     *)
(***************************************************************************)
ExtractRoutes == {"extract_text", "extract_detailed", "extract_hocr"}
UnderstandRoutes == {"understand_document", "understand_size_chart"}
AuthCodes == {200, 401, 429}        \* get_api_key returns, or raises 401 / 429
languages_list == {"eng", "fra", "deu"}
Languages == {"eng", "tlh"}
LocalKinds == {"ok", "not_image", "too_large", "undecodable", "engine_error"}
RemoteKinds == {"ok", "not_image", "too_large", "offline", "timeout", "non2xx"}
ItemKinds == {"ok", "too_large", "offline", "timeout", "non2xx"}

IsImageType(kind) == kind # "not_image"      \* content_type.startswith("image/")
FitsCeiling(kind) == kind # "too_large"      \* len(image_bytes) <= max_file_size_bytes
Decodable(kind) == kind \notin {"undecodable", "not_image"}   \* cv2.imdecode(...) is not None
ProbeOf(kind) == IF kind = "offline" THEN "error" ELSE "200"
ReplyOf(kind) ==
    IF kind = "timeout" THEN "timeout" ELSE IF kind = "non2xx" THEN "non2xx" ELSE "2xx"

MsgLanguage == "Language not allowed"
MsgDecode == "Could not decode image"
MsgEngine == "TesseractError"
MsgFileType == "Invalid file type"
MsgTooLarge == "File too large"
MsgTooMany == "Maximum 10 files per batch request"
MsgNoImages == "No valid image files found"

\* Variant: the image is decoded before the language is looked at.
perform_ocr_decode_first(kind, language) ==
    IF ~Decodable(kind)
    THEN [exc |-> "ValueError", msg |-> MsgDecode, decoded |-> TRUE, engine |-> FALSE]
    ELSE IF language \notin languages_list
    THEN [exc |-> "ValueError", msg |-> MsgLanguage, decoded |-> TRUE, engine |-> FALSE]
    ELSE IF kind = "engine_error"
    THEN [exc |-> "Exception", msg |-> MsgEngine, decoded |-> TRUE, engine |-> TRUE]
    ELSE [exc |-> "", msg |-> "", decoded |-> TRUE, engine |-> TRUE]

\* perform_ocr: the exception it raises ("" when it returns), and whether it
\* reached image_to_cv2 and pytesseract
perform_ocr(kind, language) ==
    IF language \notin languages_list
    THEN [exc |-> "ValueError", msg |-> MsgLanguage, decoded |-> FALSE, engine |-> FALSE]
    ELSE IF ~Decodable(kind)
    THEN [exc |-> "ValueError", msg |-> MsgDecode, decoded |-> TRUE, engine |-> FALSE]
    ELSE IF kind = "engine_error"
    THEN [exc |-> "Exception", msg |-> MsgEngine, decoded |-> TRUE, engine |-> TRUE]
    ELSE [exc |-> "", msg |-> "", decoded |-> TRUE, engine |-> TRUE]

\* the loop of perform_batch_ocr from image i on; images are <<filename, kind>>
RECURSIVE batch_loop(_, _, _, _)
batch_loop(images, language, i, acc) ==
    IF i > Len(images) THEN acc
    ELSE LET r == perform_ocr(images[i][2], language)
             item == [filename |-> images[i][1], success |-> r.exc = "", error |-> r.msg]
         IN batch_loop(images, language, i + 1,
                [acc EXCEPT !.results = Append(@, item),
                            !.successful = IF r.exc = "" THEN @ + 1 ELSE @,
                            !.failed = IF r.exc = "" THEN @ ELSE @ + 1,
                            !.decoded = IF r.decoded THEN @ \cup {images[i][1]} ELSE @,
                            !.engine = IF r.engine THEN @ \cup {images[i][1]} ELSE @])

\* Variant: the first failing image ends the batch.
perform_batch_ocr_stop(images, language) ==
    LET bad == {i \in 1..Len(images) : perform_ocr(images[i][2], language).exc # ""}
        n == IF bad = {} THEN Len(images) ELSE Min(bad)
    IN [batch_loop(SubSeq(images, 1, n), language, 1, NoOutcome)
            EXCEPT !.code = 200, !.total_files = Len(images)]

perform_batch_ocr(images, language) ==
    [batch_loop(images, language, 1, NoOutcome)
        EXCEPT !.code = 200, !.total_files = Len(images)]

\* understand_image run on its own: health probe, then the inference POST
understand_image(probe, reply) ==
    IF get_vlm_status(probe) # "healthy"
    THEN [exc |-> "ConnectionError", posted |-> FALSE]
    ELSE [exc |-> post_outcome(reply), posted |-> TRUE]

\* process_single of batch_understand_images
process_single(item) ==
    LET r == understand_image(ProbeOf(item[2]), ReplyOf(item[2]))
    IN [filename |-> item[1], success |-> r.exc = "ok",
        error |-> IF r.exc = "ok" THEN "" ELSE r.exc]

\* variant: the records are collected as the items complete, the items
\* that fail before the inference call first
batch_understand_images_as_completed(images) ==
    LET records == [i \in 1..Len(images) |-> process_single(images[i])]
        results == SelectSeq(records, LAMBDA r : r.error = "ConnectionError")
                       \o SelectSeq(records, LAMBDA r : r.error # "ConnectionError")
        good == {i \in 1..Len(images) : results[i].success}
    IN [NoOutcome EXCEPT
            !.code = 200, !.results = results, !.total_files = Len(images),
            !.successful = Cardinality(good),
            !.failed = Len(images) - Cardinality(good),
            !.probed = {images[i][1] : i \in 1..Len(images)},
            !.posted = {images[i][1] : i \in {j \in 1..Len(images) :
                            understand_image(ProbeOf(images[j][2]), ReplyOf(images[j][2])).posted}}]

\* batch_understand_images: asyncio.gather returns the item records in the
\* order of the items
batch_understand_images(images) ==
    LET results == [i \in 1..Len(images) |-> process_single(images[i])]
        good == {i \in 1..Len(images) : results[i].success}
    IN [NoOutcome EXCEPT
            !.code = 200, !.results = results, !.total_files = Len(images),
            !.successful = Cardinality(good),
            !.failed = Len(images) - Cardinality(good),
            !.probed = {images[i][1] : i \in 1..Len(images)},
            !.posted = {images[i][1] : i \in {j \in 1..Len(images) :
                            understand_image(ProbeOf(images[j][2]), ReplyOf(images[j][2])).posted}}]

HTTPException(code, detail) == [NoOutcome EXCEPT !.code = code, !.detail = detail]

\* Depends(get_api_key): the handler body runs only if the dependency returned
Depends(req, body) ==
    IF req.auth # 200 THEN HTTPException(req.auth, "get_api_key") ELSE body

\* extract_text, extract_detailed, extract_hocr
extract(req) ==
    LET kind == req.files[1]
        r == perform_ocr(kind, req.language)
        ran == [NoOutcome EXCEPT !.decoded = IF r.decoded THEN {1} ELSE {},
                                 !.engine = IF r.engine THEN {1} ELSE {}]
    IN Depends(req,
        IF ~IsImageType(kind) THEN HTTPException(400, MsgFileType)
        ELSE IF ~FitsCeiling(kind) THEN HTTPException(400, MsgTooLarge)
        ELSE IF r.exc = "" THEN [ran EXCEPT !.code = 200]
        ELSE IF r.exc = "ValueError" THEN [ran EXCEPT !.code = 400, !.detail = r.msg]
        ELSE [ran EXCEPT !.code = 500, !.detail = "OCR processing failed"])

\* the images batch_extract keeps: <<filename, kind>> of the files that are
\* images and fit the ceiling
valid_images(files) ==
    LET kept == SelectSeq([i \in 1..Len(files) |-> <<i, files[i]>>],
                          LAMBDA f : IsImageType(f[2]) /\ FitsCeiling(f[2]))
    IN kept

batch_extract(req) ==
    Depends(req,
        IF Len(req.files) > MAX_BATCH_FILES THEN HTTPException(400, MsgTooMany)
        ELSE IF valid_images(req.files) = <<>> THEN HTTPException(400, MsgNoImages)
        ELSE perform_batch_ocr(valid_images(req.files), req.language))

\* understand_document, understand_size_chart
understand(req) ==
    LET kind == req.files[1]
        r == understand_image(ProbeOf(kind), ReplyOf(kind))
    IN Depends(req,
        IF ~IsImageType(kind) THEN HTTPException(400, MsgFileType)
        ELSE IF ~FitsCeiling(kind) THEN HTTPException(400, MsgTooLarge)
        ELSE [NoOutcome EXCEPT !.code = understand_document(r.exc),
                               !.detail = IF r.exc = "ok" THEN "" ELSE r.exc,
                               !.probed = {1},
                               !.posted = IF r.posted THEN {1} ELSE {}])

\* The batches given to the batch operations: up to MaxFiles files, the
\* first MaxVaried of any kind, the others good images.
Batches(kinds) ==
    {[i \in 1..n |-> IF i <= Len(p) THEN p[i] ELSE "ok"] :
        n \in 1..MaxFiles, p \in SeqsUpTo(kinds, MaxVaried)}

Requests ==
    [route : ExtractRoutes, auth : AuthCodes, language : Languages,
     files : {<<k>> : k \in LocalKinds}]
    \cup [route : {"batch_extract"}, auth : AuthCodes, language : Languages,
          files : Batches(LocalKinds)]
    \cup [route : UnderstandRoutes, auth : AuthCodes, language : {"eng"},
          files : {<<k>> : k \in RemoteKinds}]
    \cup [route : {"batch_understand_images"}, auth : {200}, language : {"eng"},
          files : Batches(ItemKinds)]

InitRouteInputs ==
    /\ request \in Requests
    /\ outcome = NoOutcome

Extract ==
    /\ outcome = NoOutcome
    /\ request.route \in ExtractRoutes
    /\ outcome' = extract(request)
    /\ UNCHANGED <<request, storeVars, guardVars, vlmVars, textVars, opVars, ocrVars, adminVars, resizeVars, trailVars, gatherVars>>

BatchExtract ==
    /\ outcome = NoOutcome
    /\ request.route = "batch_extract"
    /\ outcome' = batch_extract(request)
    /\ UNCHANGED <<request, storeVars, guardVars, vlmVars, textVars, opVars, ocrVars, adminVars, resizeVars, trailVars, gatherVars>>

Understand ==
    /\ outcome = NoOutcome
    /\ request.route \in UnderstandRoutes
    /\ outcome' = understand(request)
    /\ UNCHANGED <<request, storeVars, guardVars, vlmVars, textVars, opVars, ocrVars, adminVars, resizeVars, trailVars, gatherVars>>

BatchUnderstand ==
    /\ outcome = NoOutcome
    /\ request.route = "batch_understand_images"
    /\ outcome' = batch_understand_images([i \in 1..Len(request.files) |->
                                              <<i, request.files[i]>>])
    /\ UNCHANGED <<request, storeVars, guardVars, vlmVars, textVars, opVars, ocrVars, adminVars, resizeVars, trailVars, gatherVars>>

NextRoute == Extract \/ BatchExtract \/ Understand \/ BatchUnderstand

InitRouteAlone == InitStore /\ InitGuard /\ InitVlm /\ InitText /\ InitRouteInputs /\ InitOps /\ InitOcr /\ InitAdmin /\ InitResize /\ InitTrail /\ InitGather

SpecRoute == InitRouteAlone /\ [][NextRoute]_vars

Handled == outcome # NoOutcome
Files == 1..Len(request.files)
\* an image the local engine can work on / an item the backend answers
GoodImage(kind) == kind \notin {"undecodable", "not_image", "engine_error"}
GoodItem(kind) == kind \notin {"offline", "timeout", "non2xx"}
\* the positions of the files a batch operation is to process
Kept ==
    IF request.route = "batch_extract"
    THEN {i \in Files : request.files[i] \notin {"not_image", "too_large"}}
    ELSE Files
Reached == outcome.decoded \cup outcome.engine \cup outcome.probed \cup outcome.posted

\* C12: the items of a batch are processed independently: each item has its
\* own record, in the order of the batch, successful exactly when that item
\* is good whatever the other items are; an undecodable image is a failed
\* record carrying the decode failure; successful and failed count them.
C12_ItemsIndependent ==
    (Handled /\ outcome.code = 200
       /\ request.route \in {"batch_extract", "batch_understand_images"}) =>
        LET local == request.route = "batch_extract"
            good(i) == IF local
                       THEN GoodImage(request.files[i]) /\ request.language \in languages_list
                       ELSE GoodItem(request.files[i])
            record(i) == CHOOSE r \in {outcome.results[j] : j \in 1..Len(outcome.results)} :
                              r.filename = i
        IN /\ Len(outcome.results) = Cardinality(Kept)
           /\ \A j \in 1..Len(outcome.results) :
                 /\ outcome.results[j].filename \in Kept
                 /\ \A k \in 1..(j - 1) :
                       outcome.results[k].filename < outcome.results[j].filename
           /\ \A i \in Kept :
                 /\ record(i).success = good(i)
                 /\ (local /\ request.files[i] = "undecodable"
                       /\ request.language \in languages_list) =>
                          record(i).error = MsgDecode
           /\ outcome.total_files = Cardinality(Kept)
           /\ outcome.successful = Cardinality({i \in Kept : good(i)})
           /\ outcome.failed = Cardinality({i \in Kept : ~good(i)})

\* Three images of which the second cannot be decoded.
C12_Witness ==
    /\ request.route = "batch_extract"
    /\ request.files = <<"ok", "undecodable", "ok">>
    /\ request.language = "eng"
    /\ outcome.code = 200
    /\ outcome.successful = 2 /\ outcome.failed = 1
    /\ outcome.results[1].success /\ outcome.results[3].success
    /\ outcome.results[2] = [filename |-> 2, success |-> FALSE, error |-> MsgDecode]

\* C13: a batch of more than 10 items is rejected as too many and none of
\* its items is processed, by the local-extraction batch and by the
\* remote-understanding batch alike; a batch within the cap is not rejected
\* for its size.
C13_BatchCap ==
    (Handled /\ request.auth = 200
       /\ request.route \in {"batch_extract", "batch_understand_images"}) =>
        /\ Len(request.files) > MAX_BATCH_FILES =>
              (outcome.code = 400 /\ outcome.detail = MsgTooMany /\ Reached = {})
        /\ Len(request.files) <= MAX_BATCH_FILES => outcome.detail # MsgTooMany

\* C14: in every extraction and understanding operation, batch included,
\* an upload above the size ceiling is rejected as a validation failure
\* and no engine is invoked on it.
C14_SizeCeiling ==
    (Handled /\ request.auth = 200
       /\ \E i \in Files : request.files[i] = "too_large") =>
        /\ outcome.code = 400
        /\ \A i \in Files : request.files[i] = "too_large" => i \notin Reached

\* C15: a request that fails authentication or validation is answered with
\* the failure and reaches no engine: a failed get_api_key dependency keeps
\* every handler from running, a file that is not an image or is too large
\* reaches nothing, and a language outside the allow-list is refused before
\* the image is decoded and before the local engine is called.
C15_NoEngineOnFailure ==
    Handled =>
        /\ request.auth # 200 => (outcome.code = request.auth /\ Reached = {})
        /\ (request.auth = 200 /\ request.route \in ExtractRoutes \cup UnderstandRoutes
              /\ request.files[1] \in {"not_image", "too_large"}) =>
                 (outcome.code = 400 /\ Reached = {})
        /\ (request.auth = 200 /\ request.route \in ExtractRoutes
              /\ request.files[1] \notin {"not_image", "too_large"}
              /\ request.language \notin languages_list) =>
                 (outcome.code = 400 /\ outcome.detail = MsgLanguage /\ Reached = {})
        /\ (request.route = "batch_extract" /\ request.language \notin languages_list) =>
                 (Reached = {} /\ outcome.successful = 0)
        /\ \A i \in Files : request.files[i] \in {"not_image", "too_large", "undecodable"} =>
                 i \notin outcome.engine

\* A good image with a language outside the allow-list: refused, nothing
\* decoded.
C15_Witness ==
    /\ request.route = "extract_text"
    /\ request.auth = 200
    /\ request.files = <<"ok">>
    /\ request.language = "tlh"
    /\ outcome.code = 400
    /\ outcome.detail = MsgLanguage
    /\ outcome.decoded = {}

(***************************************************************************)
(* Retention of the usage log and monotonicity of the request total,      *)
(* under Spec.                                                             *)
(***************************************************************************)
\* the entries of a usage log that are older than 24 hours at time now
Stale(requests_log, now) ==
    {j \in 1..Len(requests_log) : fromisoformat(requests_log[j]) < now - DAY}

\* C16: after any write to the credential store (usage recorded, create,
\* delete, toggle) no credential's usage log holds a timestamp older than
\* 24 hours relative to the time of that write.
C16_PrunedOnEveryWrite ==
    [][keys' # keys =>
          \A i \in 1..Len(keys') : Stale(keys'[i].requests_log, clock') = {}]_vars

\* C16, amended: after usage is recorded for a credential, that credential's
\* usage log holds no timestamp older than 24 hours relative to the time of
\* that write; the other writes, and the logs of the other credentials, are
\* not pruned.
C16_PrunedOnUsage ==
    [][(IsRequestStep /\ response'.code = 200) =>
          Stale(Lookup(keys', response'.id).requests_log, clock') = {}]_vars

\* A request admitted a day after an earlier one: the earlier entry is gone
\* from the log.
C16_Witness ==
    /\ response.code = 200
    /\ HasId(keys, response.id)
    /\ Len(hist[response.id]) = 2
    /\ Len(Lookup(keys, response.id).requests_log) = 1
    /\ Lookup(keys, response.id).last_used = isoformat(clock)

create_api_key_return(key_id, raw_key, rate_limit_per_minute, rate_limit_per_day, is_active) ==
    [id |-> key_id, key |-> raw_key, is_active |-> is_active,
     rate_limit_per_minute |-> rate_limit_per_minute,
     rate_limit_per_day |-> rate_limit_per_day, total_requests |-> 0]

list_api_keys(ks) ==
    [i \in 1..Len(ks) |->
        [id |-> ks[i].id, last_used |-> ks[i].last_used, is_active |-> ks[i].is_active,
         rate_limit_per_minute |-> ks[i].rate_limit_per_minute,
         rate_limit_per_day |-> ks[i].rate_limit_per_day,
         total_requests |-> ks[i].total_requests]]

\* the placeholder the list route puts in the key field
Masked == [prefix |-> "(masked)", token |-> <<"", 0>>]

\* GET /admin/keys
list_keys(ks) ==
    LET listed == list_api_keys(ks)
    IN [i \in 1..Len(listed) |->
           [id |-> listed[i].id, key |-> Masked, last_used |-> listed[i].last_used,
            is_active |-> listed[i].is_active,
            rate_limit_per_minute |-> listed[i].rate_limit_per_minute,
            rate_limit_per_day |-> listed[i].rate_limit_per_day,
            total_requests |-> listed[i].total_requests]]

\* variant: the two windows are exchanged
get_api_key_stats_swapped(ks, key_id, now) ==
    IF ~HasId(ks, key_id) THEN <<>>
    ELSE LET key_data == Lookup(ks, key_id)
         IN <<[id |-> key_id,
               total_requests |-> key_data.total_requests,
               requests_today |-> CountAfter(key_data.requests_log, now - HOUR),
               requests_this_hour |-> CountAfter(key_data.requests_log, now - DAY),
               last_used |-> key_data.last_used]>>

\* Optional[dict]: <<>> is None
get_api_key_stats(ks, key_id, now) ==
    IF ~HasId(ks, key_id) THEN <<>>
    ELSE LET key_data == Lookup(ks, key_id)
         IN <<[id |-> key_id,
               total_requests |-> key_data.total_requests,
               requests_today |-> CountAfter(key_data.requests_log, now - DAY),
               requests_this_hour |-> CountAfter(key_data.requests_log, now - HOUR),
               last_used |-> key_data.last_used]>>

\* the running sums of the loop of get_usage_stats
RECURSIVE Sum(_)
Sum(ns) == IF ns = <<>> THEN 0 ELSE Head(ns) + Sum(Tail(ns))

get_usage_stats(ks, now) ==
    [total_api_keys |-> Len(ks),
     active_api_keys |-> Sum([i \in 1..Len(ks) |-> IF ks[i].is_active THEN 1 ELSE 0]),
     total_requests_today |->
         Sum([i \in 1..Len(ks) |-> CountAfter(ks[i].requests_log, now - DAY)]),
     total_requests_all_time |-> Sum([i \in 1..Len(ks) |-> ks[i].total_requests])]

\* `return False` / `return True` of delete_api_key and toggle_api_key
found_return(ks, key_id) == IF HasId(ks, key_id) THEN "True" ELSE "False"
\* the admin routes raise 404 on False
not_found_status(ret) == IF ret = "False" THEN 404 ELSE 200

\* create_api_key through POST /admin/keys, with the default limits
OpCreate(key_id, tok, is_active) ==
    LET raw_key == generate_api_key(tok)
        lpm == DEFAULT_PER_MINUTE
        lpd == DEFAULT_PER_DAY
    IN /\ keys' = create_api_key(keys, key_id, raw_key, lpm, lpd, is_active)
       /\ opOut' = [op |-> "create", id |-> key_id, ret |-> "dict", code |-> 200,
                    key |-> raw_key,
                    body |-> <<create_api_key_return(key_id, raw_key, lpm, lpd, is_active)>>]
       /\ UNCHANGED <<clock, response, hist, burst, usedIds, usedToks, nreq, nticks,
                      guardVars, vlmVars, textVars, routeVars, ocrVars, adminVars, resizeVars, trailVars, gatherVars>>

\* delete_api_key through DELETE /admin/keys/{key_id}
OpDelete(key_id) ==
    LET ret == found_return(keys, key_id)
    IN /\ keys' = delete_api_key(keys, key_id)
       /\ opOut' = [op |-> "delete", id |-> key_id, ret |-> ret,
                    code |-> not_found_status(ret), key |-> NoKey, body |-> <<>>]
       /\ UNCHANGED <<clock, response, hist, burst, usedIds, usedToks, nreq, nticks,
                      guardVars, vlmVars, textVars, routeVars, ocrVars, adminVars, resizeVars, trailVars, gatherVars>>

\* toggle_api_key through PATCH /admin/keys/{key_id}/toggle
OpToggle(key_id, is_active) ==
    LET ret == found_return(keys, key_id)
    IN /\ keys' = toggle_api_key(keys, key_id, is_active)
       /\ opOut' = [op |-> "toggle", id |-> key_id, ret |-> ret,
                    code |-> not_found_status(ret), key |-> NoKey, body |-> <<>>]
       /\ UNCHANGED <<clock, response, hist, burst, usedIds, usedToks, nreq, nticks,
                      guardVars, vlmVars, textVars, routeVars, ocrVars, adminVars, resizeVars, trailVars, gatherVars>>

\* update_key_usage called d seconds after the previous operation
OpRecord(key_id, d) ==
    /\ nreq < MaxRequests
    /\ d > 0 => nticks < MaxTicks
    /\ keys' = update_key_usage(keys, key_id, clock + d)
    /\ opOut' = [op |-> "record", id |-> key_id, ret |-> "None", code |-> 0,
                 key |-> NoKey, body |-> <<>>]
    /\ clock' = clock + d
    /\ nreq' = nreq + 1
    /\ nticks' = IF d > 0 THEN nticks + 1 ELSE nticks
    /\ UNCHANGED <<response, hist, burst, usedIds, usedToks,
                   guardVars, vlmVars, textVars, routeVars, ocrVars, adminVars, resizeVars, trailVars, gatherVars>>

\* GET /admin/keys
OpList ==
    /\ opOut' = [op |-> "list", id |-> None, ret |-> "list", code |-> 200,
                 key |-> NoKey, body |-> list_keys(keys)]
    /\ UNCHANGED <<storeVars, guardVars, vlmVars, textVars, routeVars, ocrVars, adminVars, resizeVars, trailVars, gatherVars>>

\* GET /admin/keys/{key_id}
OpStats(key_id) ==
    LET stats == get_api_key_stats(keys, key_id, clock)
    IN /\ opOut' = [op |-> "stats", id |-> key_id,
                    ret |-> IF stats = <<>> THEN "None" ELSE "dict",
                    code |-> IF stats = <<>> THEN 404 ELSE 200,
                    key |-> NoKey, body |-> stats]
       /\ UNCHANGED <<storeVars, guardVars, vlmVars, textVars, routeVars, ocrVars, adminVars, resizeVars, trailVars, gatherVars>>

\* GET /admin/stats
OpUsage ==
    /\ opOut' = [op |-> "usage", id |-> None, ret |-> "dict", code |-> 200,
                 key |-> NoKey, body |-> <<get_usage_stats(keys, clock)>>]
    /\ UNCHANGED <<storeVars, guardVars, vlmVars, textVars, routeVars, ocrVars, adminVars, resizeVars, trailVars, gatherVars>>

NextOps ==
    \/ \E key_id \in KeyIds, tok \in Tokens, is_active \in BOOLEAN :
          OpCreate(key_id, tok, is_active)
    \/ \E key_id \in KeyIds : OpDelete(key_id)
    \/ \E key_id \in KeyIds, is_active \in BOOLEAN : OpToggle(key_id, is_active)
    \/ \E key_id \in KeyIds, d \in {0, HOUR, DAY} : OpRecord(key_id, d)
    \/ OpList
    \/ \E key_id \in KeyIds : OpStats(key_id)
    \/ OpUsage

SpecOps == Init /\ [][NextOps]_vars

StoredFields == {"id", "key_hash", "last_used", "is_active", "rate_limit_per_minute",
                 "rate_limit_per_day", "total_requests", "requests_log"}

\* C18: the raw secret is returned by create and by nothing else, and is
\* never persisted: create answers with the raw key whose digest it has
\* just stored, a stored record holds the digest and no key, and the
\* answer of every other operation (list, stats, usage, delete, toggle,
\* usage recording) carries no raw key: the list shows a placeholder.
C18_SecretShownOnce ==
    /\ \A i \in 1..Len(keys) : DOMAIN keys[i] = StoredFields
    /\ opOut.op = "create" =>
          /\ opOut.key \in RawKeys
          /\ opOut.body[1].key = opOut.key
          /\ Lookup(keys, opOut.id).key_hash = _hash_key(opOut.key)
    /\ opOut.op # "create" =>
          /\ opOut.key = NoKey
          /\ \A j \in 1..Len(opOut.body) :
                /\ "key_hash" \notin DOMAIN opOut.body[j]
                /\ "key" \in DOMAIN opOut.body[j] => opOut.body[j].key = Masked

\* A credential is listed after its creation: the list shows the
\* placeholder.
C18_Witness ==
    /\ opOut.op = "list"
    /\ Len(opOut.body) = 2
    /\ opOut.body[1].key = Masked
    /\ opOut.body[1].total_requests = 1

\* C19: every digest belongs to at most one credential and ids are unique;
\* a create whose generated id or digest collides with an existing
\* credential fails and leaves the existing credentials as they were; a
\* successful create adds exactly one credential.
C19_NoCollision ==
    [][opOut'.op = "create" =>
          LET new_hash == _hash_key(opOut'.key)
              collides == \/ HasId(keys, opOut'.id)
                          \/ \E i \in 1..Len(keys) : keys[i].key_hash = new_hash
          IN /\ \A i, j \in 1..Len(keys') :
                   (keys'[i].id = keys'[j].id \/ keys'[i].key_hash = keys'[j].key_hash)
                       => i = j
             /\ \A i \in 1..Len(keys) :
                   HasId(keys', keys[i].id) /\ Lookup(keys', keys[i].id) = keys[i]
             /\ IF collides THEN keys' = keys /\ opOut'.code # 200
                ELSE Len(keys') = Len(keys) + 1]_vars

\* C20: delete, toggle and usage recording on an id that is not in the
\* store report not-found and leave the whole store unchanged; on an
\* existing id they report success.
C20_NotFoundReported ==
    [][opOut'.op \in {"delete", "toggle", "record"} =>
          IF HasId(keys, opOut'.id) THEN opOut'.ret = "True"
          ELSE keys' = keys /\ opOut'.ret = "False"]_vars

\* C20, amended: delete and toggle on an id that is not in the store return
\* False (404 from the admin route) and leave the whole store unchanged, and
\* return True (200) on an existing id; usage recording on an id that is not
\* in the store leaves the whole store unchanged, and returns None whether
\* the id exists or not.
C20_NotFoundLeavesStore ==
    [][opOut'.op \in {"delete", "toggle", "record"} =>
          /\ ~HasId(keys, opOut'.id) => keys' = keys
          /\ opOut'.op \in {"delete", "toggle"} =>
                IF HasId(keys, opOut'.id)
                THEN opOut'.ret = "True" /\ opOut'.code = 200
                ELSE opOut'.ret = "False" /\ opOut'.code = 404
          /\ opOut'.op = "record" => opOut'.ret = "None"]_vars

\* Usage recorded for an id that is not in a store holding another, used,
\* credential.
C20_Witness ==
    /\ opOut.op = "record"
    /\ ~HasId(keys, opOut.id)
    /\ Len(keys) = 1
    /\ keys[1].total_requests = 1

(***************************************************************************)
(* Retries, protocol order, aborted callers and termination of            *)
(* understand_image.                                                       *)
(***************************************************************************)
\* The event loop resumes every task whose wait is over, and the inference
\* call returns, fails or hits VLM_TIMEOUT.
FairVlm ==
    \A u \in Calls :
        /\ WF_vars(\E probe \in ProbeResults : ResumeCall(u, probe))
        /\ WF_vars(\E reply \in PostReplies : Respond(u, reply))

\* The steps of the calls themselves.  A disconnect of the caller changes
\* nothing a call reads, so it is left out where only progress is at stake.
NextVlmCalls ==
    \/ \E u \in Calls, kind \in {"route", "batch"}, probe \in ProbeResults :
          StartCall(u, kind, probe)
    \/ \E u \in Calls, probe \in ProbeResults : ResumeCall(u, probe)
    \/ \E u \in Calls, reply \in PostReplies : Respond(u, reply)

SpecVlmFair == Init /\ [][NextVlmCalls]_vars /\ FairVlm

GrantedSlots == Cardinality({u \in Calls : call[u].pc = "waiting" /\ Granted(vlm_semaphore, u)})

\* C21: no failure is retried: a call issues at most one health probe and
\* at most one inference call, the inference call only after its probe, a
\* batch item is attempted once like a route call, and a call that failed
\* is over with its failure recorded, which the route reports as 503, 504
\* or 500.
C21_NoRetry ==
    \A u \in Calls :
        /\ call[u].probes <= 1
        /\ call[u].posts <= call[u].probes
        /\ call[u].pc = "inflight" => (call[u].probes = 1 /\ call[u].posts = 1)
        /\ call[u].pc = "done" =>
              /\ call[u].probes = 1
              /\ call[u].exc # ""
              /\ (call[u].exc # "ok" /\ call[u].kind = "route") =>
                    call[u].http \in {500, 503, 504}
              /\ (call[u].exc = "ok" /\ call[u].kind = "route") => call[u].http = 200
              /\ call[u].kind = "batch" => call[u].http = 0

\* A batch item timed out and a route call was answered non-2xx: each was
\* probed once and posted once.
C21_Witness ==
    \E u, v \in Calls :
        /\ call[u].pc = "done" /\ call[u].kind = "batch" /\ call[u].reply = "timeout"
        /\ call[u].probes = 1 /\ call[u].posts = 1
        /\ call[v].pc = "done" /\ call[v].kind = "route" /\ call[v].reply = "non2xx"
        /\ call[v].http = 500 /\ call[v].posts = 1

\* C26: the health probe comes before the gate: a call that waits for a
\* slot has already probed the backend, so no call ends refused by its
\* health probe after having waited for a slot.
C26_ProbeBeforeGate ==
    [][\A u \in Calls :
          /\ call'[u].pc = "waiting" => call'[u].probes = 1
          /\ call[u].pc = "waiting" =>
                ~(call'[u].pc = "done" /\ call'[u].exc = "ConnectionError")]_vars

\* C29: when the caller of an in-flight inference call is gone, the call
\* is left to run: it stays in flight until the backend's answer, failure
\* or timeout ends it, the disconnect itself touches neither the call nor
\* the gate, and the end of the call gives back exactly one slot.
C29_AbortedRunsOn ==
    [][\A u \in Calls :
          /\ (~call[u].aborted /\ call'[u].aborted) =>
                (call'[u].pc = call[u].pc /\ vlm_semaphore' = vlm_semaphore)
          /\ (call[u].aborted /\ call[u].pc = "inflight") =>
                \/ call'[u].pc = "inflight"
                \/ /\ call'[u].pc = "done"
                   /\ call'[u].reply \in PostReplies
                   /\ vlm_semaphore'.value + GrantedSlots' =
                          vlm_semaphore.value + GrantedSlots + 1]_vars

\* The caller went away during the inference call; the call was answered
\* afterwards and every slot is free again.
C29_Witness ==
    \E u \in Calls :
        /\ call[u].aborted
        /\ call[u].pc = "done"
        /\ call[u].reply = "2xx"
        /\ vlm_semaphore.value = VLM_MAX_CONCURRENT
        /\ \A v \in Calls \ {u} : call[v].pc = "idle"

\* C30: every call that was started ends, with a result or a failure; a
\* call ends only after it was given a slot, so every call waiting for a
\* slot gets one, also when more calls are started than the gate has slots.
C30_Terminates ==
    \A u \in Calls :
        (call[u].pc # "idle") ~> (call[u].pc = "done" /\ call[u].exc # "")

\* All calls were started, the gate is full and the last call waits.
C30_Witness ==
    /\ \A u \in Calls : call[u].pc # "idle"
    /\ \E u \in Calls : call[u].pc = "waiting" /\ ~Granted(vlm_semaphore, u)
    /\ vlm_semaphore.value = 0

(***************************************************************************)
(* The pruning of update_key_usage on its own: a usage log in the order    *)
(* its entries were appended, pruned at a time now, and pruned again.      *)
(***************************************************************************)
InitPruneInputs ==
    /\ guardOut = <<>>
    /\ \E times \in SortedSeqs(MaxLog), now \in GuardTimes :
        /\ \A j \in 1..(Len(times) - 1) : times[j] <= times[j + 1]
        /\ guardIn = [times |-> times, now |-> now,
                      key_data |-> [requests_log |-> [j \in 1..Len(times) |-> isoformat(times[j])],
                                    rate_limit_per_minute |-> 1,
                                    rate_limit_per_day |-> 1]]

PruneTwice ==
    /\ guardOut = <<>>
    /\ LET once == prune(guardIn.key_data.requests_log, guardIn.now)
       IN  guardOut' = <<once, prune(once, guardIn.now)>>
    /\ UNCHANGED <<guardIn, storeVars, vlmVars, textVars, routeVars, opVars, ocrVars, adminVars, resizeVars, trailVars, gatherVars>>

NextPrune == PruneTwice

InitPruneAlone == InitStore /\ InitPruneInputs /\ InitVlm /\ InitText /\ InitRoute /\ InitOps /\ InitOcr /\ InitAdmin /\ InitResize /\ InitTrail /\ InitGather

SpecPrune == InitPruneAlone /\ [][NextPrune]_vars

\* C22: pruning is idempotent: pruning a usage log at a time now and
\* pruning the result again at the same now keeps the same events as
\* pruning once, namely the events not older than 24 hours.
C22_PruneIdempotent ==
    guardOut # <<>> =>
        /\ guardOut[2] = guardOut[1]
        /\ LET kept == {j \in 1..Len(guardIn.times) : guardIn.times[j] > guardIn.now - DAY}
           IN  /\ Len(guardOut[1]) = Cardinality(kept)
               /\ \A j \in 1..Len(guardOut[1]) :
                     \E k \in kept : /\ guardOut[1][j] = isoformat(guardIn.times[k])
                                     /\ Cardinality({m \in kept : m <= k}) = j

\* Two events older than a day and a recent one: both prunings keep the
\* recent one.
C22_Witness ==
    /\ guardIn.times = <<0, 1, 86400>>
    /\ guardIn.now = 86401
    /\ guardOut = <<(<<isoformat(86400)>>), (<<isoformat(86400)>>)>>

(***************************************************************************)
(* The output shapes of perform_ocr.  The engine's answer is the table of  *)
(* pytesseract.image_to_data: one row per page, block, paragraph and line  *)
(* (empty text, conf -1) and one row per word (its text, conf 0..100).     *)
(* Strings are sequences of tokens, " " standing for whitespace.           *)
(***************************************************************************)
WordTexts == {<<" ">>, <<"a">>, <<" ", "b">>}
WordConfs == {0, 60, 90}
Rows ==
    {[text |-> <<>>, conf |-> -1, line_num |-> 0]}
        \cup [text : WordTexts, conf : WordConfs, line_num : {1, 2}]

\* sep.join(parts)
RECURSIVE join(_, _)
join(sep, parts) ==
    IF parts = <<>> THEN <<>>
    ELSE IF Len(parts) = 1 THEN parts[1]
    ELSE parts[1] \o sep \o join(sep, Tail(parts))

\* the field of every row, in order
Column(data, f) == [i \in 1..Len(data) |-> data[i][f]]

\* sum(confidences) / len(confidences) if confidences else 0, as the
\* fraction <<numerator, denominator>>
mean(confidences) ==
    IF confidences # <<>> THEN <<Sum(confidences), Len(confidences)>> ELSE <<0, 1>>

\* pytesseract.image_to_string: every recognised word, whatever its
\* confidence, separated by whitespace
image_to_string(data) ==
    join(<<" ">>, Column(SelectSeq(data, LAMBDA row : row.conf >= 0), "text"))

\* variant: words of confidence 0 are kept
perform_ocr_json_nonneg(data) ==
    LET stripped == [i \in 1..Len(data) |-> [text |-> strip(data[i].text), confidence |-> data[i].conf]]
        words == SelectSeq(stripped, LAMBDA w : w.text # <<>> /\ w.confidence >= 0)
    IN  [shape |-> "json",
         words |-> words,
         text |-> join(<<" ">>, Column(words, "text")),
         confidence |-> mean(Column(words, "confidence")),
         word_count |-> Len(words),
         line_count |-> Cardinality({data[i].line_num : i \in 1..Len(data)})]

\* perform_ocr, output_format == "json"
perform_ocr_json(data) ==
    LET stripped == [i \in 1..Len(data) |-> [text |-> strip(data[i].text), confidence |-> data[i].conf]]
        words == SelectSeq(stripped, LAMBDA w : w.text # <<>> /\ w.confidence > 0)
    IN  [shape |-> "json",
         words |-> words,
         text |-> join(<<" ">>, Column(words, "text")),
         confidence |-> mean(Column(words, "confidence")),
         word_count |-> Len(words),
         line_count |-> Cardinality({data[i].line_num : i \in 1..Len(data)})]

\* perform_ocr, plain text output; the keys this shape does not have stay
\* empty
perform_ocr_text(data) ==
    LET text == image_to_string(data)
        confidences == SelectSeq(Column(data, "conf"), LAMBDA c : c > 0)
    IN  [NoResult EXCEPT !.shape = "text",
                         !.text = strip(text),
                         !.confidence = mean(confidences)]

InitOcrInputs ==
    /\ ocrIn \in SeqsUpTo(Rows, MaxRows)
    /\ ocrOut = NoResult

ExtractJson ==
    /\ ocrOut = NoResult
    /\ ocrOut' = perform_ocr_json(ocrIn)
    /\ UNCHANGED <<ocrIn, storeVars, guardVars, vlmVars, textVars, routeVars, opVars, adminVars, resizeVars, trailVars, gatherVars>>

ExtractText ==
    /\ ocrOut = NoResult
    /\ ocrOut' = perform_ocr_text(ocrIn)
    /\ UNCHANGED <<ocrIn, storeVars, guardVars, vlmVars, textVars, routeVars, opVars, adminVars, resizeVars, trailVars, gatherVars>>

NextOcr == ExtractJson \/ ExtractText

InitOcrAlone == InitStore /\ InitGuard /\ InitVlm /\ InitText /\ InitRoute /\ InitOps /\ InitOcrInputs /\ InitAdmin /\ InitResize /\ InitTrail /\ InitGather

SpecOcr == InitOcrAlone /\ [][NextOcr]_vars

\* the rows the structured shape retains: non-empty trimmed text and
\* positive confidence
Retained(data) == {i \in 1..Len(data) : strip(data[i].text) # <<>> /\ data[i].conf > 0}

\* C23: the structured shape has no token with non-positive confidence or
\* empty trimmed text; its tokens are the retained rows in order, its text
\* their space-join, word_count their number, and line_count the number of
\* distinct line identifiers among all rows, retained or not.
C23_StructuredShape ==
    ocrOut.shape = "json" =>
        LET kept == Retained(ocrIn)
        IN  /\ \A j \in 1..Len(ocrOut.words) :
                 /\ ocrOut.words[j].confidence > 0
                 /\ ocrOut.words[j].text # <<>>
                 /\ strip(ocrOut.words[j].text) = ocrOut.words[j].text
            /\ Len(ocrOut.words) = Cardinality(kept)
            /\ \A j \in 1..Len(ocrOut.words) :
                 \E k \in kept :
                    /\ Cardinality({m \in kept : m <= k}) = j
                    /\ ocrOut.words[j].text = strip(ocrIn[k].text)
                    /\ ocrOut.words[j].confidence = ocrIn[k].conf
            /\ ocrOut.text = join(<<" ">>, Column(ocrOut.words, "text"))
            /\ ocrOut.word_count = Cardinality(kept)
            /\ ocrOut.line_count = Cardinality({ocrIn[i].line_num : i \in 1..Len(ocrIn)})

\* A line row, a word of confidence 0 on line 1 and a word of confidence 90
\* on line 2: one token is retained and three line identifiers are counted.
C23_Witness ==
    /\ ocrIn = <<[text |-> <<>>, conf |-> -1, line_num |-> 0],
                 [text |-> <<"a">>, conf |-> 0, line_num |-> 1],
                 [text |-> <<" ", "b">>, conf |-> 90, line_num |-> 2]>>
    /\ ocrOut.shape = "json"
    /\ ocrOut.words = <<[text |-> <<"b">>, confidence |-> 90]>>
    /\ ocrOut.text = <<"b">>
    /\ ocrOut.word_count = 1
    /\ ocrOut.line_count = 3

\* C24: in the text shape the confidence is the mean of the confidences of
\* only the tokens in the text: tokens of non-positive confidence are in
\* neither the text nor the average, and the confidence is 0 when no token
\* is included.
C24_MeanOfIncluded ==
    ocrOut.shape = "text" =>
        LET included == SelectSeq(ocrIn, LAMBDA row : strip(row.text) # <<>> /\ row.conf > 0)
        IN  /\ ocrOut.text = strip(join(<<" ">>, Column(included, "text")))
            /\ ocrOut.confidence = mean(Column(included, "conf"))

(***************************************************************************)
(* The admin routes behind Depends(get_admin_user).  A bearer token is     *)
(* either not a JWT at all (an API key secret) or a JWT with a signature   *)
(* that verifies under settings.secret_key or not, a "type" claim and an   *)
(* expiry.                                                                 *)
(***************************************************************************)
WEEK == 7 * DAY
BearerTokens ==
    {[kind |-> "api_key", signed |-> FALSE, type |-> "", exp |-> 0, key |-> raw_key] :
        raw_key \in {generate_api_key(tok) : tok \in Tokens}}
    \cup {[kind |-> "jwt", signed |-> TRUE, type |-> "admin", exp |-> WEEK, key |-> NoKey],
          [kind |-> "jwt", signed |-> TRUE, type |-> "admin", exp |-> 0, key |-> NoKey],
          [kind |-> "jwt", signed |-> TRUE, type |-> "user", exp |-> WEEK, key |-> NoKey],
          [kind |-> "jwt", signed |-> FALSE, type |-> "admin", exp |-> WEEK, key |-> NoKey]}
Credentials == {NoCredentials} \cup BearerTokens

\* verify_token: <<payload>>, or <<>> for None on JWTError (not a JWT, bad
\* signature, expired)
verify_token(token, now) ==
    IF token.kind = "jwt" /\ token.signed /\ ~(token.exp < now)
    THEN <<[type |-> token.type, exp |-> token.exp]>>
    ELSE <<>>

\* variant: the "type" claim is not looked at
get_admin_user_any_type(creds, now) ==
    IF creds = NoCredentials THEN [code |-> 401, detail |-> "Missing authentication token"]
    ELSE LET payload == verify_token(creds, now)
         IN IF payload = <<>>
            THEN [code |-> 401, detail |-> "Invalid or expired admin token"]
            ELSE [code |-> 200, detail |-> ""]

\* get_admin_user: the HTTPException it raises, or code 200 when it returns
get_admin_user(creds, now) ==
    IF creds = NoCredentials THEN [code |-> 401, detail |-> "Missing authentication token"]
    ELSE LET payload == verify_token(creds, now)
         IN IF payload = <<>> \/ payload[1].type # "admin"
            THEN [code |-> 401, detail |-> "Invalid or expired admin token"]
            ELSE [code |-> 200, detail |-> ""]

\* a route with admin: dict = Depends(get_admin_user): its body, which
\* leaves the store as ks and answers out, runs only if the dependency
\* returned
AdminRoute(creds, ks, out) ==
    LET admin == get_admin_user(creds, clock)
    IN /\ credentials' = creds
       /\ keys' = IF admin.code = 200 THEN ks ELSE keys
       /\ opOut' = IF admin.code = 200 THEN out
                   ELSE [NoCall EXCEPT !.op = out.op, !.id = out.id, !.ret = admin.detail,
                                        !.code = admin.code]
       /\ UNCHANGED <<clock, response, hist, burst, usedIds, usedToks, nreq, nticks,
                      guardVars, vlmVars, textVars, routeVars, ocrVars, resizeVars, trailVars, gatherVars>>

\* POST /admin/keys
AdminCreate(creds, key_id, tok, is_active) ==
    LET raw_key == generate_api_key(tok)
        lpm == DEFAULT_PER_MINUTE
        lpd == DEFAULT_PER_DAY
    IN AdminRoute(creds, create_api_key(keys, key_id, raw_key, lpm, lpd, is_active),
                  [op |-> "create", id |-> key_id, ret |-> "dict", code |-> 200,
                   key |-> raw_key,
                   body |-> <<create_api_key_return(key_id, raw_key, lpm, lpd, is_active)>>])

\* DELETE /admin/keys/{key_id}
AdminDelete(creds, key_id) ==
    LET ret == found_return(keys, key_id)
    IN AdminRoute(creds, delete_api_key(keys, key_id),
                  [op |-> "delete", id |-> key_id, ret |-> ret,
                   code |-> not_found_status(ret), key |-> NoKey, body |-> <<>>])

\* PATCH /admin/keys/{key_id}/toggle
AdminToggle(creds, key_id, is_active) ==
    LET ret == found_return(keys, key_id)
    IN AdminRoute(creds, toggle_api_key(keys, key_id, is_active),
                  [op |-> "toggle", id |-> key_id, ret |-> ret,
                   code |-> not_found_status(ret), key |-> NoKey, body |-> <<>>])

\* GET /admin/keys
AdminList(creds) ==
    AdminRoute(creds, keys,
               [op |-> "list", id |-> None, ret |-> "list", code |-> 200,
                key |-> NoKey, body |-> list_keys(keys)])

\* GET /admin/keys/{key_id}
AdminStats(creds, key_id) ==
    LET stats == get_api_key_stats(keys, key_id, clock)
    IN AdminRoute(creds, keys,
                  [op |-> "stats", id |-> key_id,
                   ret |-> IF stats = <<>> THEN "None" ELSE "dict",
                   code |-> IF stats = <<>> THEN 404 ELSE 200,
                   key |-> NoKey, body |-> stats])

\* GET /admin/stats
AdminUsage(creds) ==
    AdminRoute(creds, keys,
               [op |-> "usage", id |-> None, ret |-> "dict", code |-> 200,
                key |-> NoKey, body |-> <<get_usage_stats(keys, clock)>>])

NextAdmin ==
    \/ \E creds \in Credentials, key_id \in KeyIds, tok \in Tokens, is_active \in BOOLEAN :
          AdminCreate(creds, key_id, tok, is_active)
    \/ \E creds \in Credentials, key_id \in KeyIds : AdminDelete(creds, key_id)
    \/ \E creds \in Credentials, key_id \in KeyIds, is_active \in BOOLEAN :
          AdminToggle(creds, key_id, is_active)
    \/ \E creds \in Credentials : AdminList(creds)
    \/ \E creds \in Credentials, key_id \in KeyIds : AdminStats(creds, key_id)
    \/ \E creds \in Credentials : AdminUsage(creds)
    \/ Tick(DAY)

SpecAdmin == Init /\ [][NextAdmin]_vars

AdminOps == {"create", "list", "delete", "toggle", "stats", "usage"}

\* a signed, unexpired JWT whose type is admin
HoldsAdminToken(creds, now) ==
    /\ creds.kind = "jwt"
    /\ creds.signed
    /\ creds.type = "admin"
    /\ creds.exp >= now

\* C25: a credential lifecycle operation (create, list, delete, toggle,
\* stats) changes or reveals store state only for a caller holding a valid
\* token of type admin: with an API key secret, with no token, or with any
\* other token it is answered 401, the store is unchanged and nothing of
\* the store is in the answer.  (A step that leaves the clock alone is a
\* request to an admin route.)
C25_AdminOnly ==
    [][(clock' = clock /\ opOut'.op \in AdminOps /\ ~HoldsAdminToken(credentials', clock))
          => /\ keys' = keys
             /\ opOut'.code = 401
             /\ opOut'.key = NoKey
             /\ opOut'.body = <<>>]_vars

\* A store with a key, and a delete of that key presented with the key's
\* own secret: refused, the key is still stored.
C25_Witness ==
    /\ credentials.kind = "api_key"
    /\ opOut.op = "delete"
    /\ opOut.code = 401
    /\ HasId(keys, opOut.id)
    /\ Lookup(keys, opOut.id).key_hash = _hash_key(credentials.key)

\* how often x occurs in the sequence q
Occurrences(q, x) == Cardinality({j \in 1..Len(q) : q[j] = x})

\* C27: no usage update is lost, whatever the interleaving of requests on
\* the same or other credentials and of admin writes: for every stored
\* credential total_requests is the number of requests admitted for it
\* since its creation, and every admission not older than 24 hours has its
\* event in requests_log.
C27_NoLostUpdate ==
    \A i \in 1..Len(keys) :
        LET h == hist[keys[i].id]
        IN  /\ keys[i].total_requests = Len(h)
            /\ \A j \in 1..Len(h) :
                 h[j] > clock - DAY =>
                    Occurrences(keys[i].requests_log, isoformat(h[j])) = Occurrences(h, h[j])

\* Two credentials that were both used, one of them switched off after its
\* use: the admin writes took nothing from either count or log.
C27_Witness ==
    /\ Len(keys) = 2
    /\ \A i \in 1..2 : keys[i].total_requests >= 1 /\ keys[i].requests_log # <<>>
    /\ \E i \in 1..2 : ~keys[i].is_active
    /\ \E i \in 1..2 : keys[i].total_requests = 2

(***************************************************************************)
(* Whole API requests: the get_api_key dependency, then the route body.    *)
(* The store holds one active credential with limits 2 and 2.              *)
(***************************************************************************)
ReadOnlyRoutes == {"list_languages", "check_vlm_status", "list_presets"}

\* list_languages: 500 when get_available_languages raises
list_languages(req) ==
    Depends(req,
        IF req.files = <<"engine_error">> THEN HTTPException(500, MsgEngine)
        ELSE [NoOutcome EXCEPT !.code = 200])

\* check_vlm_status: get_vlm_status always returns a dict
check_vlm_status(req) ==
    Depends(req, [NoOutcome EXCEPT !.code = 200, !.probed = {1}])

\* list_presets
list_presets(req) == Depends(req, [NoOutcome EXCEPT !.code = 200])

\* the route function the path of the request selects
endpoint(req) ==
    IF req.route \in ExtractRoutes THEN extract(req)
    ELSE IF req.route = "batch_extract" THEN batch_extract(req)
    ELSE IF req.route \in UnderstandRoutes THEN understand(req)
    ELSE IF req.route = "list_languages" THEN list_languages(req)
    ELSE IF req.route = "check_vlm_status" THEN check_vlm_status(req)
    ELSE list_presets(req)

\* variant: usage is written only when the route answered 200
serve_record_on_success(ks, api_key, req, now) ==
    LET r == get_api_key(ks, api_key, now, now)
        out == endpoint([req EXCEPT !.auth = r.code])
    IN [keys |-> IF out.code = 200 THEN r.keys ELSE ks,
        response |-> [key |-> api_key, code |-> r.code, detail |-> r.detail, id |-> r.id],
        request |-> [req EXCEPT !.auth = r.code],
        outcome |-> out]

\* a request to a route with api_key: dict = Depends(get_api_key): the
\* dependency is solved, usage written, before the route function is called
serve(ks, api_key, req, now) ==
    LET r == get_api_key(ks, api_key, now, now)
        out == endpoint([req EXCEPT !.auth = r.code])
    IN [keys |-> r.keys,
        response |-> [key |-> api_key, code |-> r.code, detail |-> r.detail, id |-> r.id],
        request |-> [req EXCEPT !.auth = r.code],
        outcome |-> out]

Serve(api_key, req) ==
    /\ nreq < MaxRequests
    /\ LET s == serve(keys, api_key, req, clock)
       IN  /\ keys' = s.keys
           /\ response' = s.response
           /\ request' = s.request
           /\ outcome' = s.outcome
           /\ hist' = IF s.response.code = 200
                      THEN [hist EXCEPT ![s.response.id] = Append(@, clock)]
                      ELSE hist
    /\ nreq' = nreq + 1
    /\ UNCHANGED <<clock, burst, usedIds, usedToks, nticks,
                   guardVars, vlmVars, textVars, opVars, ocrVars, adminVars, resizeVars, trailVars, gatherVars>>

ServeRequests(routes, languages, fileses) ==
    [route : routes, auth : {0}, language : languages, files : fileses]

ServeExtract ==
    \E api_key \in Headers, req \in ServeRequests(ExtractRoutes, Languages, {<<k>> : k \in LocalKinds}) :
        Serve(api_key, req)

ServeBatchExtract ==
    \E api_key \in Headers,
       req \in ServeRequests({"batch_extract"}, {"eng"},
                  {<<"ok">>, <<"not_image">>, <<"ok", "engine_error">>,
                   [i \in 1..(MAX_BATCH_FILES + 1) |-> "ok"]}) :
        Serve(api_key, req)

ServeUnderstand ==
    \E api_key \in Headers, req \in ServeRequests(UnderstandRoutes, {"eng"}, {<<k>> : k \in RemoteKinds}) :
        Serve(api_key, req)

ServeReadOnly ==
    \E api_key \in Headers, req \in ServeRequests(ReadOnlyRoutes, {"eng"}, {<<"ok">>, <<"engine_error">>}) :
        Serve(api_key, req)

NextServe ==
    \/ ServeExtract
    \/ ServeBatchExtract
    \/ ServeUnderstand
    \/ ServeReadOnly
    \/ Tick(DAY)

\* the store after one POST /admin/keys
InitServeStore ==
    /\ keys = create_api_key(<<>>, <<"k", 1>>, generate_api_key(<<"t", 1>>), 2, 2, TRUE)
    /\ clock = 0
    /\ response = [key |-> NoHeader, code |-> 0, detail |-> "", id |-> None]
    /\ hist = [c \in KeyIds |-> <<>>]
    /\ burst = [c \in KeyIds |-> NoBurst]
    /\ usedIds = {<<"k", 1>>}
    /\ usedToks = {<<"t", 1>>}
    /\ nreq = 0
    /\ nticks = 0

InitServe ==
    InitServeStore /\ InitGuard /\ InitVlm /\ InitText /\ InitRoute /\ InitOps /\ InitOcr /\ InitAdmin /\ InitResize /\ InitTrail /\ InitGather

SpecServe == InitServe /\ [][NextServe]_vars

\* C28: usage is recorded at the admission decision, before any
\* processing: a request that get_api_key admits appends exactly one usage
\* event and adds exactly 1 to total_requests, whether the route then
\* succeeds or fails, however many files a batch carries, and on the
\* read-only routes as well.
C28_RecordedAtAdmission ==
    [][(nreq' = nreq + 1 /\ response'.code = 200) =>
          LET c == response'.id
              old == Lookup(keys, c)
              new == Lookup(keys', c)
              event == isoformat(clock)
          IN  /\ new.total_requests = old.total_requests + 1
              /\ Occurrences(new.requests_log, event) = Occurrences(old.requests_log, event) + 1
              /\ Len(new.requests_log) <= Len(old.requests_log) + 1
              /\ new.last_used = event]_vars

\* An admitted batch of 11 files, refused by the route for its size, is the
\* one request in the credential's usage.
C28_Witness ==
    /\ response.code = 200
    /\ request.route = "batch_extract"
    /\ Len(request.files) = MAX_BATCH_FILES + 1
    /\ outcome.code = 400
    /\ outcome.detail = MsgTooMany
    /\ keys[1].total_requests = 1
    /\ Len(keys[1].requests_log) = 1

MAX_IMAGE_SIZE == 512
Dims == {1, 512, 513, 1024, 600000}
ImageModes == {"RGB", "RGBA"}        \* JPEG cannot store an alpha channel
Images == [opens : BOOLEAN, width : Dims, height : Dims, mode : ImageModes]

\* the upload, byte for byte
Original(img) == [reencoded |-> FALSE, width |-> img.width, height |-> img.height]

\* int(width * min(MAX_IMAGE_SIZE / width, MAX_IMAGE_SIZE / height)) and the
\* same for height
new_size(width, height) ==
    IF width >= height
    THEN <<MAX_IMAGE_SIZE, (height * MAX_IMAGE_SIZE) \div width>>
    ELSE <<(width * MAX_IMAGE_SIZE) \div height, MAX_IMAGE_SIZE>>

\* the body of the try block: the exception it raises ("" when it returns)
\* and the bytes it returns
resize_try(img) ==
    IF ~img.opens THEN [exc |-> "UnidentifiedImageError", bytes |-> Original(img)]
    ELSE IF img.width <= MAX_IMAGE_SIZE /\ img.height <= MAX_IMAGE_SIZE
    THEN [exc |-> "", bytes |-> Original(img)]
    ELSE LET size == new_size(img.width, img.height)
         IN IF size[1] = 0 \/ size[2] = 0
            THEN [exc |-> "ValueError", bytes |-> Original(img)]
            ELSE IF img.mode = "RGBA"
            THEN [exc |-> "OSError", bytes |-> Original(img)]
            ELSE [exc |-> "", bytes |-> [reencoded |-> TRUE, width |-> size[1], height |-> size[2]]]

\* variant: an exception of the resize leaves the function
resize_image_for_vlm_raises(img) ==
    LET r == resize_try(img)
    IN [exc |-> r.exc, failed |-> r.exc, bytes |-> r.bytes]

\* resize_image_for_vlm: `except Exception` returns image_bytes; failed is
\* the exception that was caught, exc the one that leaves the function
resize_image_for_vlm(img) ==
    LET r == resize_try(img)
    IN [exc |-> "", failed |-> r.exc, bytes |-> IF r.exc = "" THEN r.bytes ELSE Original(img)]

InitResizeInputs ==
    /\ image \in Images
    /\ forwarded = <<>>

Resize ==
    /\ forwarded = <<>>
    /\ forwarded' = <<resize_image_for_vlm(image)>>
    /\ UNCHANGED <<image, storeVars, guardVars, vlmVars, textVars, routeVars, opVars, ocrVars, adminVars, trailVars, gatherVars>>

NextResize == Resize

InitResizeAlone ==
    InitStore /\ InitGuard /\ InitVlm /\ InitText /\ InitRoute /\ InitOps /\ InitOcr /\ InitAdmin /\ InitResizeInputs /\ InitTrail /\ InitGather

SpecResize == InitResizeAlone /\ [][NextResize]_vars

\* C32: the downscale step never fails the call: when resizing raises, the
\* original bytes are forwarded; an image with both dimensions within the
\* cap of 512 is forwarded unchanged; only an image exceeding the cap is
\* re-encoded.
C32_DownscaleNeverFails ==
    forwarded # <<>> =>
        LET r == forwarded[1]
            within == image.width <= 512 /\ image.height <= 512
        IN  /\ r.exc = ""
            /\ r.failed # "" => r.bytes = Original(image)
            /\ (image.opens /\ within) => (r.bytes = Original(image) /\ r.failed = "")
            /\ r.bytes.reencoded =>
                  /\ ~within
                  /\ r.bytes.width <= 512 /\ r.bytes.height <= 512

\* An image over the cap whose JPEG encoding fails: the error is caught and
\* the upload itself is forwarded.
C32_Witness ==
    /\ image = [opens |-> TRUE, width |-> 1024, height |-> 513, mode |-> "RGBA"]
    /\ forwarded # <<>>
    /\ forwarded[1] = [exc |-> "", failed |-> "OSError", bytes |-> Original(image)]

\* the fields of a key record that usage recording writes
SameUsage(a, b) ==
    /\ a.requests_log = b.requests_log
    /\ a.total_requests = b.total_requests
    /\ a.last_used = b.last_used

\* C33: after its creation no operation changes a credential's id, digest
\* or limits: a step that changes its usage fields (an admitted request)
\* changes nothing else of it, and a step that changes its active flag (a
\* toggle) changes nothing else of it.
C33_FixedAfterCreation ==
    [][\A i \in 1..Len(keys) :
          HasId(keys', keys[i].id) =>
              LET old == keys[i]
                  new == Lookup(keys', keys[i].id)
              IN  /\ new.key_hash = old.key_hash
                  /\ new.rate_limit_per_minute = old.rate_limit_per_minute
                  /\ new.rate_limit_per_day = old.rate_limit_per_day
                  /\ new.is_active # old.is_active => SameUsage(new, old)
                  /\ ~SameUsage(new, old) => new.is_active = old.is_active]_vars

\* C34: for every credential the usage log is never longer than
\* total_requests; the statistics reported for a credential satisfy
\* requests_this_hour <= requests_today <= total_requests; and the overall
\* statistics satisfy active_api_keys <= total_api_keys and
\* total_requests_today <= total_requests_all_time.
C34_CountsOrdered ==
    /\ \A i \in 1..Len(keys) : Len(keys[i].requests_log) <= keys[i].total_requests
    /\ (opOut.op = "stats" /\ opOut.body # <<>>) =>
          /\ opOut.body[1].requests_this_hour <= opOut.body[1].requests_today
          /\ opOut.body[1].requests_today <= opOut.body[1].total_requests
    /\ opOut.op = "usage" =>
          /\ opOut.body[1].active_api_keys <= opOut.body[1].total_api_keys
          /\ opOut.body[1].total_requests_today <= opOut.body[1].total_requests_all_time

\* Statistics of a credential used three times, a day and then an hour
\* apart: one request in the last hour, two in the last day, three in all.
C34_Witness ==
    /\ opOut.op = "stats"
    /\ opOut.body # <<>>
    /\ opOut.body[1].requests_this_hour = 1
    /\ opOut.body[1].requests_today = 2
    /\ opOut.body[1].total_requests = 3

\* the input items of the batch function, in order: positions in the upload
KeptInOrder == SelectSeq([i \in 1..Len(request.files) |-> i], LAMBDA i : i \in Kept)

\* C35: in every result of perform_batch_ocr and batch_understand_images,
\* successful + failed = total_files = the number of records, every input
\* item has exactly one record, and the records are in the order of the
\* input items, each with its item's filename.
C35_BatchCounts ==
    (Handled /\ outcome.code = 200
       /\ request.route \in {"batch_extract", "batch_understand_images"}) =>
        /\ outcome.successful + outcome.failed = outcome.total_files
        /\ outcome.total_files = Len(outcome.results)
        /\ Len(outcome.results) = Len(KeptInOrder)
        /\ \A j \in 1..Len(outcome.results) : outcome.results[j].filename = KeptInOrder[j]
        /\ \A i \in Kept :
              Cardinality({j \in 1..Len(outcome.results) : outcome.results[j].filename = i}) = 1
        /\ outcome.successful =
              Cardinality({j \in 1..Len(outcome.results) : outcome.results[j].success})

\* A remote batch of three whose second item finds the backend offline.
C35_Witness ==
    /\ request.route = "batch_understand_images"
    /\ request.files = <<"ok", "offline", "ok">>
    /\ outcome.code = 200
    /\ outcome.total_files = 3 /\ outcome.successful = 2 /\ outcome.failed = 1
    /\ outcome.results[2] = [filename |-> 2, success |-> FALSE, error |-> "ConnectionError"]
    /\ outcome.results[3].filename = 3

(***************************************************************************)
(* Requests and admin writes on a store of two credentials, A with limits  *)
(* 1 per minute and 2 per day, B with 2 and 1, with the history of what    *)
(* was done.                                                               *)
(***************************************************************************)
IdA == <<"k", 1>>
IdB == <<"k", 2>>
KeyA == generate_api_key(<<"t", 1>>)
KeyB == generate_api_key(<<"t", 2>>)

\* the store after two POST /admin/keys
InitTrailStore ==
    /\ keys = create_api_key(create_api_key(<<>>, IdA, KeyA, 1, 2, TRUE), IdB, KeyB, 2, 1, TRUE)
    /\ clock = 0
    /\ response = [key |-> NoHeader, code |-> 0, detail |-> "", id |-> None]
    /\ hist = [c \in KeyIds |-> <<>>]
    /\ burst = [c \in KeyIds |-> NoBurst]
    /\ usedIds = {IdA, IdB}
    /\ usedToks = {<<"t", 1>>, <<"t", 2>>}
    /\ nreq = 0
    /\ nticks = 0

Event(op, id, flag, code) == [op |-> op, id |-> id, flag |-> flag, code |-> code]

\* a request through Depends(get_api_key)
TrailRequest(api_key) ==
    /\ Len(trail) < MaxTrail
    /\ LET r == get_api_key(keys, api_key, clock, clock)
       IN  /\ keys' = r.keys
           /\ response' = [key |-> api_key, code |-> r.code, detail |-> r.detail, id |-> r.id]
           /\ hist' = IF r.code = 200 THEN [hist EXCEPT ![r.id] = Append(@, clock)] ELSE hist
           /\ trail' = Append(trail, Event("request", r.id, FALSE, r.code))
    /\ UNCHANGED <<clock, burst, usedIds, usedToks, nreq, nticks,
                   guardVars, vlmVars, textVars, routeVars, opVars, ocrVars, adminVars, resizeVars, gatherVars>>

\* PATCH /admin/keys/{key_id}/toggle
TrailToggle(key_id, is_active) ==
    /\ Len(trail) < MaxTrail
    /\ keys' = toggle_api_key(keys, key_id, is_active)
    /\ trail' = Append(trail, Event("toggle", key_id, is_active,
                                    not_found_status(found_return(keys, key_id))))
    /\ UNCHANGED <<clock, response, hist, burst, usedIds, usedToks, nreq, nticks,
                   guardVars, vlmVars, textVars, routeVars, opVars, ocrVars, adminVars, resizeVars, gatherVars>>

\* DELETE /admin/keys/{key_id}
TrailDelete(key_id) ==
    /\ Len(trail) < MaxTrail
    /\ keys' = delete_api_key(keys, key_id)
    /\ hist' = [hist EXCEPT ![key_id] = <<>>]
    /\ trail' = Append(trail, Event("delete", key_id, FALSE,
                                    not_found_status(found_return(keys, key_id))))
    /\ UNCHANGED <<clock, response, burst, usedIds, usedToks, nreq, nticks,
                   guardVars, vlmVars, textVars, routeVars, opVars, ocrVars, adminVars, resizeVars, gatherVars>>

\* the update_key_usage call of a request whose key was validated before
\* the key was deleted, arriving after the delete (the two cannot be
\* separated on one event loop; they can with more than one server process)
LateUsage(key_id) ==
    /\ Len(trail) < MaxTrail
    /\ \E j \in 1..Len(trail) : trail[j] = Event("delete", key_id, FALSE, 200)
    /\ keys' = update_key_usage(keys, key_id, clock)
    /\ trail' = Append(trail, Event("usage", key_id, FALSE, 0))
    /\ UNCHANGED <<clock, response, hist, burst, usedIds, usedToks, nreq, nticks,
                   guardVars, vlmVars, textVars, routeVars, opVars, ocrVars, adminVars, resizeVars, gatherVars>>

NextTrail ==
    \/ \E api_key \in Headers : TrailRequest(api_key)
    \/ \E key_id \in KeyIds : LateUsage(key_id)
    \/ \E key_id \in KeyIds, is_active \in BOOLEAN : TrailToggle(key_id, is_active)
    \/ \E key_id \in KeyIds : TrailDelete(key_id)
    \/ Tick(MINUTE)

InitTrailAlone ==
    InitTrailStore /\ InitGuard /\ InitVlm /\ InitText /\ InitRoute /\ InitOps /\ InitOcr /\ InitAdmin /\ InitResize /\ InitTrail /\ InitGather

SpecTrail == InitTrailAlone /\ [][NextTrail]_vars

\* the event of this step, when the step is a request or an admin write
Did(op) == trail' # trail /\ trail'[Len(trail')].op = op
Last == trail'[Len(trail')]

\* C36: set_active(id, b) changes only the active flag of the target
\* credential and is idempotent; it keeps the usage history, so a
\* credential whose per-minute or per-day quota is exhausted is still denied
\* with 429 after being disabled and enabled again within the window.
C36_ToggleKeepsUsage ==
    [][/\ Did("toggle") =>
            /\ Len(keys') = Len(keys)
            /\ \A i \in 1..Len(keys) :
                  keys'[i] = IF keys[i].id = Last.id
                             THEN [keys[i] EXCEPT !.is_active = Last.flag]
                             ELSE keys[i]
            /\ toggle_api_key(keys', Last.id, Last.flag) = keys'
       /\ Did("request") =>
            \A i \in 1..Len(keys) :
               (/\ keys[i].key_hash = _hash_key(response'.key)
                /\ keys[i].is_active
                /\ \/ AdmittedIn(hist[keys[i].id], clock, MINUTE) >= keys[i].rate_limit_per_minute
                   \/ AdmittedIn(hist[keys[i].id], clock, DAY) >= keys[i].rate_limit_per_day)
               => response'.code = 429]_vars

\* A's one request of the minute is used, A is disabled and enabled again,
\* and its next request is denied for the per-minute limit.
C36_Witness ==
    /\ trail = <<Event("request", IdA, FALSE, 200), Event("toggle", IdA, FALSE, 200),
                 Event("toggle", IdA, TRUE, 200), Event("request", IdA, FALSE, 429)>>
    /\ response.detail = MsgMinute
    /\ clock = 0

\* C37: an operation on one credential never changes another: an admitted
\* request, a toggle or a delete on credential A leaves every other
\* credential's record (active flag, limits, usage log, total, last use)
\* as it was, also when requests on A and B interleave.
C37_OthersUntouched ==
    [][(Did("request") \/ Did("toggle") \/ Did("delete")) =>
          \A i \in 1..Len(keys) :
             keys[i].id # Last.id =>
                /\ HasId(keys', keys[i].id)
                /\ Lookup(keys', keys[i].id) = keys[i]]_vars

\* Requests on A and B interleaved, then A deleted: B's record still holds
\* its one request.
C37_Witness ==
    /\ trail = <<Event("request", IdA, FALSE, 200), Event("request", IdB, FALSE, 200),
                 Event("toggle", IdA, FALSE, 200), Event("delete", IdA, FALSE, 200)>>
    /\ Len(keys) = 1
    /\ keys[1].id = IdB
    /\ keys[1].is_active
    /\ keys[1].total_requests = 1
    /\ keys[1].requests_log = <<isoformat(0)>>

\* the delete of credential c succeeded in the history h
DeletedIn(h, c) == \E j \in 1..Len(h) : h[j] = Event("delete", c, FALSE, 200)
SecretOf(c) == IF c = IdA THEN KeyA ELSE KeyB

\* C38: after delete(id) has succeeded, every later request presenting the
\* credential's secret fails authentication, the credential is in neither
\* the list nor the statistics, and the usage recording of a request that
\* was validated before the delete writes nothing: the id is not re-created.
C38_DeletedStaysGone ==
    [][/\ \A c \in KeyIds :
            DeletedIn(trail', c) =>
               /\ ~HasId(keys', c)
               /\ \A j \in 1..Len(list_keys(keys')) : list_keys(keys')[j].id # c
               /\ get_api_key_stats(keys', c, clock') = <<>>
               /\ get_usage_stats(keys', clock').total_api_keys = Len(keys')
       /\ \A c \in KeyIds :
            (Did("request") /\ DeletedIn(trail, c) /\ response'.key = SecretOf(c)) =>
               /\ response'.code = 401
               /\ response'.detail = MsgInvalid
               /\ keys' = keys
       /\ Did("usage") => keys' = keys]_vars

\* A is used and deleted; the usage recording of a request validated before
\* the delete arrives, and a later request with A's secret is refused.
C38_Witness ==
    /\ trail = <<Event("request", IdA, FALSE, 200), Event("delete", IdA, FALSE, 200),
                 Event("usage", IdA, FALSE, 0), Event("request", None, FALSE, 401)>>
    /\ response.key = KeyA
    /\ Len(keys) = 1
    /\ keys[1].id = IdB

(***************************************************************************)
(* batch_understand_images next to single understand requests: the items   *)
(* are the tasks of one asyncio.gather, each running understand_image.     *)
(***************************************************************************)
\* the calls that run the items of a batch, in the order of the items: a
\* batch of n items is run by the last n calls, the first item by the last
ItemLists == {[i \in 1..n |-> MaxCalls + 1 - i] : n \in 0..MaxCalls}

Items == {gathered.items[i] : i \in 1..Len(gathered.items)}
Singles == Calls \ Items

\* what process_single returns for the item named filename whose call is c
ItemRecord(filename, c) ==
    [filename |-> filename, success |-> c.exc = "ok",
     error |-> IF c.exc = "ok" THEN "" ELSE c.exc]

\* tasks = [process_single(item) for item in images]; asyncio.gather(*tasks)
\* makes one task per item and schedules them all
Gather(items) ==
    /\ gathered.pc = "none"
    /\ \A i \in 1..Len(items) : call[items[i]].pc = "idle"
    /\ gathered' = [NoBatch EXCEPT !.pc = "pending", !.items = items]
    /\ UNCHANGED <<storeVars, guardVars, vlmVars, textVars, routeVars, opVars, ocrVars, adminVars, resizeVars, trailVars>>

\* the task of item i runs up to its first suspension; the tasks start in
\* the order they were scheduled in, which is the order of the items
ItemStart(i, probe) ==
    /\ gathered.pc = "pending"
    /\ i \in 1..Len(gathered.items)
    /\ \A j \in 1..(i - 1) : call[gathered.items[j]].pc # "idle"
    /\ StartCall(gathered.items[i], "batch", probe)

\* a single understand request reaches understand_image
SingleStart(u, probe) ==
    /\ u \in Singles
    /\ StartCall(u, "route", probe)

\* the done callback of the task of item i: gather counts it as finished
ItemDone(i) ==
    /\ gathered.pc = "pending"
    /\ i \in 1..Len(gathered.items)
    /\ call[gathered.items[i]].pc = "done"
    /\ \A j \in 1..Len(gathered.seen) : gathered.seen[j] # i
    /\ gathered' = [gathered EXCEPT !.seen = Append(@, i)]
    /\ UNCHANGED <<storeVars, guardVars, vlmVars, textVars, routeVars, opVars, ocrVars, adminVars, resizeVars, trailVars>>

\* variant: the records are collected in the order the items finished in
BatchReturn_as_completed ==
    /\ gathered.pc = "pending"
    /\ Len(gathered.seen) = Len(gathered.items)
    /\ gathered' = [gathered EXCEPT
            !.pc = "returned",
            !.results = [j \in 1..Len(gathered.seen) |->
                            ItemRecord(gathered.seen[j], call[gathered.items[gathered.seen[j]]])]]
    /\ UNCHANGED <<storeVars, guardVars, vlmVars, textVars, routeVars, opVars, ocrVars, adminVars, resizeVars, trailVars>>

\* every task has finished: gather hands back the tasks' results in the
\* order of its arguments and batch_understand_images returns
BatchReturn ==
    /\ gathered.pc = "pending"
    /\ Len(gathered.seen) = Len(gathered.items)
    /\ gathered' = [gathered EXCEPT
            !.pc = "returned",
            !.results = [i \in 1..Len(gathered.items) |->
                            ItemRecord(i, call[gathered.items[i]])]]
    /\ UNCHANGED <<storeVars, guardVars, vlmVars, textVars, routeVars, opVars, ocrVars, adminVars, resizeVars, trailVars>>

NextGather ==
    \/ \E items \in ItemLists : Gather(items)
    \/ \E i \in 1..MaxCalls, probe \in ProbeResults : ItemStart(i, probe)
    \/ \E u \in Calls, probe \in ProbeResults : SingleStart(u, probe)
    \/ \E u \in Calls, probe \in ProbeResults : ResumeCall(u, probe)
    \/ \E u \in Calls, reply \in PostReplies : Respond(u, reply)
    \/ \E i \in 1..MaxCalls : ItemDone(i)
    \/ BatchReturn

\* The event loop runs every task and callback that is scheduled.
FairGather ==
    /\ FairVlm
    /\ \A i \in 1..MaxCalls :
          /\ WF_vars(\E probe \in ProbeResults : ItemStart(i, probe))
          /\ WF_vars(ItemDone(i))
    /\ WF_vars(BatchReturn)

SpecGather == Init /\ [][NextGather]_vars /\ FairGather

Waits(u) == call[u].pc = "waiting" /\ ~Granted(vlm_semaphore, u)

\* C31: the items of a remote-understanding batch run concurrently through
\* the same gate as single understand requests: the inference calls of
\* items and of single requests together never exceed VLM_MAX_CONCURRENT,
\* an item or a single request waits only while every slot is taken or
\* promised to an earlier waiter, every batch returns with all its items
\* finished, and its records are in the order of the items.
C31_BatchSharesGate ==
    /\ [](/\ Cardinality(Items \cap InFlight) + Cardinality(Singles \cap InFlight)
                <= VLM_MAX_CONCURRENT
          /\ \A u \in Calls :
                Waits(u) => (vlm_semaphore.value = 0 \/ GrantedSlots > 0)
          /\ gathered.pc = "returned" =>
                /\ Len(gathered.results) = Len(gathered.items)
                /\ \A i \in 1..Len(gathered.items) :
                      gathered.results[i] = ItemRecord(i, call[gathered.items[i]]))
    /\ (gathered.pc = "pending") ~>
          (gathered.pc = "returned" /\ \A u \in Items : call[u].pc = "done")

\* A batch of two items next to a single request: the second item was
\* refused by its probe and finished first, the first item timed out, and
\* the records came back first item first.
C31_Witness ==
    /\ gathered.pc = "returned"
    /\ Len(gathered.items) = 2
    /\ gathered.seen = <<2, 1>>
    /\ gathered.results = <<[filename |-> 1, success |-> FALSE, error |-> "TimeoutError"],
                            [filename |-> 2, success |-> FALSE, error |-> "ConnectionError"]>>
    /\ \E u \in Singles : call[u].pc = "done" /\ call[u].http = 200

TypeOK ==
    /\ clock \in Nat
    /\ nreq \in 0..MaxRequests
    /\ \A i \in 1..Len(keys) : keys[i].id \in KeyIds
====
